---- MODULE Spec2Model ----
(***************************************************************************)
(* Work-session lifecycle, submission matching, review and realtime        *)
(* fan-out of the orgIO backend (src/backend).                             *)
(*                                                                         *)
(* Store tables are modelled as sequences whose index is the row id.       *)
(* Python None / a missing value is "none" for strings and Null for        *)
(* numbers.  Strings that the code inspects character by character are     *)
(* tuples of one-character strings.                                        *)
(***************************************************************************)
EXTENDS Integers, Sequences, FiniteSets, TLC

\* ------------------------------------------------------------------ bounds
MaxSessions == 2
MaxSubmissions == 2
MaxTasks == 4

\* ------------------------------------------------------- values and tables
Null == 0 - 999
NoOrg == "none"
Orgs == {"o1", "o2"}
Roles == {"dev"}
WS == {"w1", "w2"}
Reqs == {1, 2}

\* identities the identity provider can return: userId and org_id claim
Callers ==
    { [userId |-> "u1", orgId |-> "o1"],
      [userId |-> "u2", orgId |-> "o1"],
      [userId |-> "u1", orgId |-> "o2"],
      [userId |-> "u2", orgId |-> NoOrg],
      [userId |-> "u3", orgId |-> NoOrg] }

\* rows of the briefs table (owned by the brief collaborator, never written here)
BriefIds == {"b1", "b2"}
BriefInputs == BriefIds \cup {"b0"}
Briefs ==
    [b \in BriefIds |->
        IF b = "b1" THEN [id |-> "b1", name |-> "Brief1", org_id |-> "o1", created_by |-> "u1"]
                    ELSE [id |-> "b2", name |-> "Brief2", org_id |-> NoOrg, created_by |-> "u3"]]

\* rows of the users table: u1 has a name, u2 only an email, u3 has no row
UserRows ==
    [u \in {"u1", "u2"} |->
        IF u = "u1" THEN [name |-> "Ann", email |-> "ann@x"]
                    ELSE [name |-> "none", email |-> "u2@x"]]

\* clock readings, in seconds
StartTimes == {60}
VARIABLES
    work_sessions,       \* table work_sessions: Seq of rows, id = index
    submissions,         \* table submissions: Seq of rows, id = index
    task_table,          \* table tasks: Seq of rows, each with its id
    submission_activities, \* table submission_activities: Seq of rows
    active_connections,  \* WebSocketManager.active_connections: org -> set of sockets
    reqs,                \* end_session calls in flight: position and locals
    matcher,             \* the last TaskMatchingAgent.match_tasks call: inputs and result
    analysis,            \* the last SubmissionAnalysisAgent.analyze_submission call
    bcast,               \* the broadcast_to_org call in flight: position and locals
    resp,                \* response of the call that completed in the last step
    wire                 \* envelopes delivered in the last step: set of [to, type, payload]

vars == <<work_sessions, submissions, task_table, submission_activities, active_connections,
          reqs, matcher, analysis, bcast, resp, wire>>

NoResp == [op |-> "none", status |-> 0]
Idle == [pc |-> "idle"]

\* ------------------------------------------------------------ fan-out
\* WebSocketManager.broadcast_to_org / broadcast_event, as one step of a caller.
\* An outcome is the set of sockets whose send succeeded, the registry afterwards
\* and whether the call raised.  A send that raises is caught per socket and the
\* socket is discarded after the loop; the loop itself raises (RuntimeError, set
\* changed size during iteration) when the set is mutated while a send is
\* suspended, in which case the clean-up loop is not reached.
BroadcastOutcomes(org) ==
    IF org \notin DOMAIN active_connections
    THEN { [sent |-> {}, conns |-> active_connections, raised |-> FALSE] }
    ELSE { [sent |-> active_connections[org] \ failed,
            conns |-> [active_connections EXCEPT ![org] = @ \ failed],
            raised |-> FALSE] : failed \in SUBSET active_connections[org] }
         \cup
         { [sent |-> some, conns |-> active_connections, raised |-> TRUE] :
             some \in (SUBSET active_connections[org]) \ {active_connections[org]} }

\* mutant: an exception of the broadcast reaches the caller of the handler
AfterBroadcast_Propagates(raised, status) == IF raised THEN 500 ELSE status

\* try: await broadcast_event(...) except: the handler goes on to its return
AfterBroadcast(raised, status) == status

Envelopes(sent, type, payload) ==
    { [type |-> type, payload |-> payload, to |-> w] : w \in sent }

\* the sockets registered under org, none when the key is absent
Listeners(conns, org) == IF org \in DOMAIN conns THEN conns[org] ELSE {}

\* WebSocketManager.connect
Connect(w, org) ==
    /\ \A o \in DOMAIN active_connections : w \notin active_connections[o]
    /\ active_connections' =
          [o \in DOMAIN active_connections \cup {org} |->
              IF o = org
              THEN (IF org \in DOMAIN active_connections THEN active_connections[org] ELSE {}) \cup {w}
              ELSE active_connections[o]]
    /\ resp' = NoResp
    /\ wire' = {}
    /\ UNCHANGED <<work_sessions, submissions, reqs, matcher, analysis, bcast, task_table, submission_activities>>

\* mutant: the organisation's key stays when its set becomes empty
Disconnect_KeepsKey(w, org) ==
    /\ org \in DOMAIN active_connections
    /\ active_connections' = [active_connections EXCEPT ![org] = @ \ {w}]
    /\ bcast' = IF bcast.pc = "send" /\ bcast.org_id = org
                THEN [bcast EXCEPT !.stayed = @ \ {w}]
                ELSE bcast
    /\ resp' = NoResp
    /\ wire' = {}
    /\ UNCHANGED <<work_sessions, submissions, reqs, matcher, analysis, task_table, submission_activities>>

\* WebSocketManager.disconnect
Disconnect(w, org) ==
    /\ org \in DOMAIN active_connections
    /\ active_connections' =
          IF active_connections[org] \ {w} = {}
          THEN [o \in DOMAIN active_connections \ {org} |-> active_connections[o]]
          ELSE [active_connections EXCEPT ![org] = @ \ {w}]
    /\ bcast' = IF bcast.pc = "send" /\ bcast.org_id = org /\ active_connections[org] \ {w} = {}
                THEN [bcast EXCEPT !.detached = TRUE, !.stayed = @ \ {w}]
                ELSE IF bcast.pc = "send" /\ bcast.org_id = org
                THEN [bcast EXCEPT !.stayed = @ \ {w}]
                ELSE bcast
    /\ resp' = NoResp
    /\ wire' = {}
    /\ UNCHANGED <<work_sessions, submissions, reqs, matcher, analysis, task_table, submission_activities>>

\* ------------------------------------------------------------ broadcast_to_org, send by send
\* The call as the event loop runs it: it is suspended at every await
\* send_json, and connect and disconnect calls of other tasks run meanwhile.
\*   initial       the set of the organisation when the for loop began
\*   used          its size then, which the set iterator compares at every next()
\*   stayed        the members of initial not discarded since
\*   visited       the sockets the iterator has yielded
\*   cur           the socket whose send is awaited
\*   disconnected  the local set of sockets whose send raised
\*   delivered     the sockets whose send returned, in order
\*   detached      disconnect deleted the organisation's key: the iterated set is
\*                 empty and no longer the registry's
BcastStart(org_id, type, payload, conns) ==
    [org_id |-> org_id, pc |-> "iter", raised |-> FALSE, type |-> type,
     payload |-> payload, stayed |-> Listeners(conns, org_id),
     detached |-> FALSE, initial |-> Listeners(conns, org_id),
     used |-> Cardinality(Listeners(conns, org_id)),
     visited |-> {}, cur |-> "none", disconnected |-> {}, delivered |-> <<>>]

BcastRaise(b) == [b EXCEPT !.pc = "done", !.cur = "none", !.raised = TRUE]

\* mutant: the sockets whose send raised stay in the set
BcastCleanup_Keeps(b, conns) ==
    [bcast |-> [b EXCEPT !.pc = "done", !.cur = "none"], conns |-> conns]

\* for websocket in disconnected: self.active_connections[org_id].discard(websocket)
\* (the subscript raises KeyError when the key is gone)
BcastCleanup(b, conns) ==
    IF b.disconnected = {} THEN [bcast |-> [b EXCEPT !.pc = "done", !.cur = "none"], conns |-> conns]
    ELSE IF b.org_id \notin DOMAIN conns THEN [bcast |-> BcastRaise(b), conns |-> conns]
    ELSE [bcast |-> [b EXCEPT !.pc = "done", !.cur = "none"],
          conns |-> [conns EXCEPT ![b.org_id] = @ \ b.disconnected]]

\* mutant: the loop ends after its first socket
BcastNext_First(b, conns) ==
    LET content == IF b.detached THEN {} ELSE conns[b.org_id]
    IN IF b.visited # {} \/ content = {} THEN { BcastCleanup(b, conns) }
       ELSE { [bcast |-> [b EXCEPT !.pc = "send", !.cur = w, !.visited = @ \cup {w}],
               conns |-> conns] : w \in content }

\* next() of the set iterator and what follows it without an await: RuntimeError
\* when the size of the set is not the size at the start of the loop; else a
\* socket not yet yielded, whose send is then awaited; else the end of the loop
\* and the clean-up.  A socket added during the loop lies before or after the
\* iterator's position, so the loop may end without yielding it.
BcastNext(b, conns) ==
    LET content == IF b.detached THEN {} ELSE conns[b.org_id]
    IN IF Cardinality(content) # b.used
       THEN { [bcast |-> BcastRaise(b), conns |-> conns] }
       ELSE { [bcast |-> [b EXCEPT !.pc = "send", !.cur = w, !.visited = @ \cup {w}],
               conns |-> conns] : w \in content \ b.visited }
            \cup (IF (content \ b.visited) \cap b.stayed = {}
                  THEN { BcastCleanup(b, conns) } ELSE {})

\* WebSocketManager.broadcast_event up to its first await, or to its return
broadcast_event(event_type, payload, org_id) ==
    /\ bcast.pc \in {"idle", "done"}
    /\ IF org_id \notin DOMAIN active_connections
       THEN /\ bcast' = [BcastStart(org_id, event_type, payload, active_connections)
                           EXCEPT !.pc = "done"]
            /\ UNCHANGED active_connections
       ELSE \E out \in BcastNext(BcastStart(org_id, event_type, payload, active_connections),
                                 active_connections) :
               /\ bcast' = out.bcast
               /\ active_connections' = out.conns
    /\ resp' = NoResp
    /\ wire' = {}
    /\ UNCHANGED <<work_sessions, submissions, reqs, matcher, analysis, task_table,
                   submission_activities>>

\* the awaited send_json returns (ok) or raises, and the loop goes on to its
\* next await or to its end
BroadcastSent(ok) ==
    /\ bcast.pc = "send"
    /\ LET b == IF ok THEN [bcast EXCEPT !.delivered = Append(@, bcast.cur)]
                      ELSE [bcast EXCEPT !.disconnected = @ \cup {bcast.cur}]
       IN \E out \in BcastNext(b, active_connections) :
             /\ bcast' = out.bcast
             /\ active_connections' = out.conns
    /\ wire' = IF ok THEN Envelopes({bcast.cur}, bcast.type, bcast.payload) ELSE {}
    /\ resp' = NoResp
    /\ UNCHANGED <<work_sessions, submissions, reqs, matcher, analysis, task_table,
                   submission_activities>>

\* ------------------------------------------------------------ start_session
\* mutant: a single organisation equality instead of the three-way check
HasAccess_OrgOnly(user_id, org_id, brief) == org_id # NoOrg /\ brief.org_id = org_id

\* the three-way access check of start_session
HasAccess(user_id, org_id, brief) ==
    IF brief.created_by = user_id THEN TRUE
    ELSE IF org_id # NoOrg /\ brief.org_id = org_id THEN TRUE
    ELSE IF org_id = NoOrg /\ brief.org_id = NoOrg THEN brief.created_by = user_id
    ELSE FALSE

\* the organisation start_session hands to broadcast_event
StartNotifyOrg(org_id, brief) == org_id

\* mutant: the session is stored under the brief's creator, not the caller
StartRow_Creator(caller, briefId, role, now) ==
    [org_id |-> caller.orgId, status |-> "active",
     user_id |-> Briefs[briefId].created_by, role |-> role, brief_id |-> briefId,
     started_at |-> now, ended_at |-> Null, duration_minutes |-> Null]

\* session_data of start_session, with the columns the store fills in
StartRow(caller, briefId, role, now) ==
    [org_id |-> caller.orgId, status |-> "active",
     user_id |-> caller.userId, role |-> role, brief_id |-> briefId,
     started_at |-> now, ended_at |-> Null, duration_minutes |-> Null]

StartFail(code, caller, briefId) ==
    /\ resp' = [op |-> "start", status |-> code, caller |-> caller, briefId |-> briefId]
    /\ wire' = {}
    /\ UNCHANGED <<work_sessions, submissions, active_connections, reqs, matcher, analysis, bcast, task_table, submission_activities>>

start_session(caller, briefId, role, insertOk, now) ==
    /\ Len(work_sessions) < MaxSessions
    /\ IF briefId \notin BriefIds THEN StartFail(404, caller, briefId)
       ELSE IF ~HasAccess(caller.userId, caller.orgId, Briefs[briefId])
       THEN StartFail(403, caller, briefId)
       ELSE IF ~insertOk THEN StartFail(500, caller, briefId)
       ELSE
         LET row == StartRow(caller, briefId, role, now)
             sid == Len(work_sessions) + 1
             payload == [userId |-> caller.userId, briefId |-> briefId, sessionId |-> sid]
         IN /\ work_sessions' = Append(work_sessions, row)
            /\ \E out \in BroadcastOutcomes(StartNotifyOrg(caller.orgId, Briefs[briefId])) :
                 /\ active_connections' = out.conns
                 /\ wire' = Envelopes(out.sent, "session:started", payload)
                 /\ resp' = [op |-> "start", status |-> AfterBroadcast(out.raised, 200),
                             caller |-> caller,
                             briefId |-> briefId, role |-> role,
                             sessionId |-> sid, startedAt |-> now, notifyRaised |-> out.raised]
            /\ UNCHANGED <<submissions, reqs, matcher, analysis, bcast, task_table, submission_activities>>


\* ------------------------------------------------------------ end_session
\* int(x / 60) of Python: truncation towards zero
TruncDiv(a, b) == IF a >= 0 THEN a \div b ELSE 0 - ((0 - a) \div b)

Max(a, b) == IF a >= b THEN a ELSE b

\* mutant: the clamp to one minute is missing
DurationMinutes_NoClamp(started_at, ended_at) == TruncDiv(ended_at - started_at, 60)

\* duration_minutes = max(1, int((ended_at - started_at).total_seconds() / 60))
DurationMinutes(started_at, ended_at) == Max(1, TruncDiv(ended_at - started_at, 60))

\* user_name = name or email if the users row exists, else "User"
UserName(user_id) ==
    IF user_id \in DOMAIN UserRows
    THEN (IF UserRows[user_id].name # "none" THEN UserRows[user_id].name
          ELSE UserRows[user_id].email)
    ELSE "User"

RECURSIVE SumDuration(_, _)
\* app_durations[app]: the durations (seconds) of the app's activities, summed
SumDuration(acts, app) ==
    IF acts = <<>> THEN 0
    ELSE (IF Head(acts).app = app THEN Head(acts).duration ELSE 0) + SumDuration(Tail(acts), app)

RECURSIVE AppOrder(_, _)
\* keys of app_durations in insertion order (first occurrence of each app)
AppOrder(acts, seen) ==
    IF acts = <<>> THEN <<>>
    ELSE IF Head(acts).app \in seen THEN AppOrder(Tail(acts), seen)
    ELSE <<Head(acts).app>> \o AppOrder(Tail(acts), seen \cup {Head(acts).app})

RemoveAt(s, i) == [j \in 1..(Len(s) - 1) |-> IF j < i THEN s[j] ELSE s[j + 1]]

RECURSIVE SortedApps(_, _)
\* sorted(app_durations.items(), key=duration, reverse=True): stable, so equal
\* totals keep insertion order
SortedApps(acts, order) ==
    IF order = <<>> THEN <<>>
    ELSE LET best == CHOOSE i \in 1..Len(order) :
                        /\ \A j \in 1..Len(order) :
                              SumDuration(acts, order[j]) <= SumDuration(acts, order[i])
                        /\ \A j \in 1..(i - 1) :
                              SumDuration(acts, order[j]) < SumDuration(acts, order[i])
         IN <<order[best]>> \o SortedApps(acts, RemoveAt(order, best))

Take(s, n) == IF Len(s) <= n THEN s ELSE SubSeq(s, 1, n)

TopApps == 3

RECURSIVE AppLines(_, _)
\* "Worked in {app} for {mins} minutes" for each of the top apps with mins > 0
AppLines(acts, apps) ==
    IF apps = <<>> THEN <<>>
    ELSE LET mins == SumDuration(acts, Head(apps)) \div 60
         IN (IF mins > 0 THEN <<[app |-> Head(apps), mins |-> mins, kind |-> "app"]>> ELSE <<>>)
            \o AppLines(acts, Tail(apps))

\* mutant: the generic line is not added when nothing else was produced
EndSummaryLines_NoDefault(acts, summary, duration_minutes) ==
    LET appLines == AppLines(acts, Take(SortedApps(acts, AppOrder(acts, {})), TopApps))
    IN IF summary # "none"
       THEN appLines \o <<[kind |-> "text", text |-> summary]>>
       ELSE appLines

\* summary_lines of end_session
EndSummaryLines(acts, summary, duration_minutes) ==
    LET appLines == AppLines(acts, Take(SortedApps(acts, AppOrder(acts, {})), TopApps))
        withText == IF summary # "none"
                    THEN <<[kind |-> "text", text |-> summary]>> \o appLines
                    ELSE appLines
    IN IF withText = <<>>
       THEN <<[mins |-> duration_minutes, kind |-> "session"]>>
       ELSE withText

\* activity lists and free-text summaries a client sends with end
Act(app, duration) == [app |-> app, duration |-> duration]
EndPayloads ==
    { [summary |-> "none", activities |-> <<>>],
      [summary |-> "none", activities |-> <<Act("Editor", 1200), Act("Browser", 300)>>],
      [summary |-> "notes", activities |-> <<Act("Editor", 30)>>] }

\* mutant: the select loads the session whatever its status
EndSelectMatches_AnyStatus(row) == TRUE

\* the filter of the select that loads the session: .eq("status", "active")
EndSelectMatches(row) == row.status = "active"

\* mutant: the owner check is missing
EndOwnerOk_Anyone(row, user_id) == TRUE

\* session["user_id"] != user_id raises 403
EndOwnerOk(row, user_id) == row.user_id = user_id

EndFail(r, code, sid, user_id) ==
    /\ resp' = [userId |-> user_id, op |-> "end", status |-> code, sessionId |-> sid,
                req |-> r]
    /\ wire' = {}
    /\ reqs' = [reqs EXCEPT ![r] = Idle]

\* the filter of the update that marks the session completed: .eq("id", sessionId)
EndUpdateMatches(row, sid, id) == id = sid

\* lines 339-353: select the active session and check the owner
EndSelect(r, caller, sid) ==
    /\ reqs[r] = Idle
    /\ Len(submissions) + Cardinality({q \in Reqs : reqs[q] # Idle}) < MaxSubmissions
    /\ UNCHANGED <<work_sessions, submissions, active_connections, matcher, analysis, bcast, task_table, submission_activities>>
    /\ IF ~(sid \in 1..Len(work_sessions) /\ EndSelectMatches(work_sessions[sid]))
       THEN EndFail(r, 404, sid, caller.userId)
       ELSE IF ~EndOwnerOk(work_sessions[sid], caller.userId)
       THEN EndFail(r, 403, sid, caller.userId)
       ELSE /\ reqs' = [reqs EXCEPT ![r] =
                          [pc |-> "update", user_id |-> caller.userId, ended_at |-> Null,
                           duration_minutes |-> Null, sid |-> sid,
                           summary |-> "none", session |-> work_sessions[sid],
                           activities |-> <<>>, summary_lines |-> <<>>,
                           submission_id |-> Null]]
            /\ resp' = NoResp
            /\ wire' = {}

\* lines 355-375: read the clock, compute the duration, update work_sessions
EndUpdate(r, now) ==
    /\ reqs[r].pc = "update"
    /\ LET duration_minutes == DurationMinutes(reqs[r].session.started_at, now)
       IN /\ work_sessions' =
                [id \in 1..Len(work_sessions) |->
                    IF EndUpdateMatches(work_sessions[id], reqs[r].sid, id)
                    THEN [work_sessions[id] EXCEPT !.ended_at = now,
                                                   !.duration_minutes = duration_minutes,
                                                   !.status = "completed"]
                    ELSE work_sessions[id]]
          /\ reqs' = [reqs EXCEPT ![r].pc = "insert", ![r].ended_at = now,
                                  ![r].duration_minutes = duration_minutes]
    /\ resp' = NoResp
    /\ wire' = {}
    /\ UNCHANGED <<submissions, active_connections, matcher, analysis, bcast, task_table, submission_activities>>

\* the row end_session inserts into submissions
EndSubmission(q, summary_lines) ==
    [status |-> "pending", user_id |-> q.user_id,
     role |-> q.session.role, brief_id |-> q.session.brief_id,
     duration_minutes |-> q.duration_minutes,
     summary_lines |-> summary_lines, user_name |-> UserName(q.user_id),
     session_id |-> q.sid, matched_tasks |-> <<>>, ai_analysis |-> "none"]

\* submission_id = data[0]["id"] if data else None
EndSubmissionId(outcome, newId) == IF outcome = "ok" THEN newId ELSE Null

\* lines 377-422: user name, summary of the request's activities, insert into
\* submissions.  The insert returns the new row, returns no data, or raises.
EndInsert(r, acts, summary, outcome) ==
    /\ reqs[r].pc = "insert"
    /\ UNCHANGED <<work_sessions, active_connections, matcher, analysis, bcast, task_table, submission_activities>>
    /\ wire' = {}
    /\ LET summary_lines == EndSummaryLines(acts, summary, reqs[r].duration_minutes)
       IN IF outcome = "raise"
          THEN /\ submissions' = submissions
               /\ reqs' = [reqs EXCEPT ![r] = Idle]
               /\ resp' = [userId |-> reqs[r].user_id, op |-> "end", status |-> 500,
                           sessionId |-> reqs[r].sid, req |-> r]
          ELSE /\ submissions' = IF outcome = "ok"
                                 THEN Append(submissions, EndSubmission(reqs[r], summary_lines))
                                 ELSE submissions
               /\ reqs' = [reqs EXCEPT ![r].pc = "notify",
                                       ![r].activities = acts,
                                       ![r].summary = summary,
                                       ![r].summary_lines = summary_lines,
                                       ![r].submission_id =
                                           EndSubmissionId(outcome, Len(submissions) + 1)]
               /\ resp' = NoResp

\* lines 424-446: broadcast session:ended, return
EndNotify(r) ==
    /\ reqs[r].pc = "notify"
    /\ LET q == reqs[r]
           payload == [userId |-> q.user_id, briefId |-> q.session.brief_id,
                       sessionId |-> q.sid, submissionId |-> q.submission_id,
                       durationMinutes |-> q.duration_minutes]
       IN \E out \in BroadcastOutcomes(q.session.org_id) :
            /\ active_connections' = out.conns
            /\ wire' = Envelopes(out.sent, "session:ended", payload)
            /\ resp' = [userId |-> q.user_id, op |-> "end", status |-> AfterBroadcast(out.raised, 200),
                        sessionId |-> q.sid,
                        notifyRaised |-> out.raised,
                        summary |-> q.summary,
                        activities |-> q.activities, req |-> r,
                        submissionId |-> q.submission_id, durationMinutes |-> q.duration_minutes,
                        summaryLines |-> q.summary_lines]
    /\ reqs' = [reqs EXCEPT ![r] = Idle]
    /\ UNCHANGED <<work_sessions, submissions, matcher, analysis, bcast, task_table, submission_activities>>


\* ------------------------------------------------------------ TaskMatchingAgent
\* Text is a tuple of one-character strings.
UpperAlpha == <<"A", "B", "C", "D", "E", "F", "G", "H", "I", "J", "K", "L", "M",
                "N", "O", "P", "Q", "R", "S", "T", "U", "V", "W", "X", "Y", "Z">>
LowerAlpha == <<"a", "b", "c", "d", "e", "f", "g", "h", "i", "j", "k", "l", "m",
                "n", "o", "p", "q", "r", "s", "t", "u", "v", "w", "x", "y", "z">>

\* str.lower()
Lower(text) ==
    [i \in 1..Len(text) |->
        IF \E k \in 1..Len(UpperAlpha) : UpperAlpha[k] = text[i]
        THEN LowerAlpha[CHOOSE k \in 1..Len(UpperAlpha) : UpperAlpha[k] = text[i]]
        ELSE text[i]]

RECURSIVE Join(_, _)
\* sep.join(parts)
Join(parts, sep) ==
    IF parts = <<>> THEN <<>>
    ELSE IF Len(parts) = 1 THEN Head(parts)
    ELSE Head(parts) \o sep \o Join(Tail(parts), sep)

RECURSIVE SplitFrom(_, _)
\* str.split(): the maximal runs of non-blank characters; cur is the run being read
SplitFrom(text, cur) ==
    IF text = <<>> THEN (IF cur = <<>> THEN <<>> ELSE <<cur>>)
    ELSE IF Head(text) = " "
         THEN (IF cur = <<>> THEN <<>> ELSE <<cur>>) \o SplitFrom(Tail(text), <<>>)
         ELSE SplitFrom(Tail(text), Append(cur, Head(text)))

Split(text) == SplitFrom(text, <<>>)

\* word in text: substring test
Contains(text, word) ==
    \E i \in 0..(Len(text) - Len(word)) : SubSeq(text, i + 1, i + Len(word)) = word

\* task.get("id") or task.get("task_id")
TaskId(task) == IF task.id # "none" THEN task.id ELSE task.task_id

ValidTaskIds(tasks) == {TaskId(tasks[i]) : i \in 1..Len(tasks)}

RECURSIVE SelectIds(_, _)
SelectIds(ids, keep) ==
    IF ids = <<>> THEN <<>>
    ELSE (IF Head(ids) \in keep THEN <<Head(ids)>> ELSE <<>>) \o SelectIds(Tail(ids), keep)

\* mutant: the ids of the model's answer are returned unvalidated
FilterValid_Unchecked(ids, tasks) == ids

\* [tid for tid in matched_ids if tid in valid_task_ids]
FilterValid(ids, tasks) == SelectIds(ids, ValidTaskIds(tasks))

\* all_text of _fallback_matching
AllText(summary, activities) ==
    Lower(Join(summary, <<" ">>)) \o <<" ">>
        \o Lower(Join([i \in 1..Len(activities) |-> activities[i].summary], <<" ">>))

\* the two keyword tests of _fallback_matching
KeywordMatch(task, all_text) ==
    \/ \E w \in {Split(Lower(task.title))[i] : i \in 1..Len(Split(Lower(task.title)))} :
          Len(w) > 3 /\ Contains(all_text, w)
    \/ \E w \in {Split(Lower(task.description))[i] :
                    i \in 1..Len(Split(Lower(task.description)))} :
          Len(w) > 4 /\ Contains(all_text, w)

MaxFallbackMatches == 3

RECURSIVE FallbackScan(_, _)
FallbackScan(tasks, all_text) ==
    IF tasks = <<>> THEN <<>>
    ELSE (IF KeywordMatch(Head(tasks), all_text) THEN <<TaskId(Head(tasks))>> ELSE <<>>)
         \o FallbackScan(Tail(tasks), all_text)

\* mutant: every keyword match is returned, without the cap
FallbackMatching_NoCap(tasks, summary, activities) ==
    FallbackScan(tasks, AllText(summary, activities))

\* _fallback_matching
FallbackMatching(tasks, summary, activities) ==
    Take(FallbackScan(tasks, AllText(summary, activities)), MaxFallbackMatches)

\* What the language model call yields: it raises (network, timeout), it answers
\* text that json.loads rejects, or it answers JSON.  A JSON answer is an object
\* with or without the key matched_task_ids, whose value is a list or null, or
\* it is not an object at all.
LLMUsable(llm) ==
    /\ llm.kind = "json"
    /\ llm.object
    /\ (llm.hasKey => llm.isList)

\* match_tasks
match_tasks(tasks, summary, activities, llm) ==
    IF tasks = <<>> THEN <<>>
    ELSE IF LLMUsable(llm)
         THEN FilterValid(IF llm.hasKey THEN llm.ids ELSE <<>>, tasks)
         ELSE FallbackMatching(tasks, summary, activities)

NoMatch == [phase |-> "none"]

\* one call of match_tasks
MatchTasks(tasks, summary, activities, llm) ==
    /\ matcher = NoMatch
    /\ matcher' = [summary |-> summary, activities |-> activities, tasks |-> tasks,
                   llm |-> llm, phase |-> "done",
                   result |-> match_tasks(tasks, summary, activities, llm)]
    /\ UNCHANGED <<work_sessions, submissions, active_connections, reqs, task_table,
                   submission_activities, analysis, bcast, resp, wire>>

\* inputs of the matcher
\* texts of tasks, summaries and activities, one character per element
Tx ==
    [BuildLoginApi |-> <<"B", "u", "i", "l", "d", " ", "l", "o", "g", "i", "n", " ", "A", "P", "I">>,
     FixBug |-> <<"F", "i", "x", " ", "b", "u", "g">>,
     HandleCrash |-> <<"H", "a", "n", "d", "l", "e", " ", "c", "r", "a", "s", "h", " ", "r", "e", "p", "o", "r", "t">>,
     Docs |-> <<"D", "o", "c", "s">>,
     WriteTests |-> <<"W", "r", "i", "t", "e", " ", "t", "e", "s", "t", "s">>,
     ImplLogin |-> <<"I", "m", "p", "l", "e", "m", "e", "n", "t", "e", "d", " ", "l", "o", "g", "i", "n", " ", "A", "P", "I", " ", "e", "n", "d", "p", "o", "i", "n", "t">>,
     Crashed |-> <<"C", "r", "a", "s", "h", "e", "d", " ", "t", "w", "i", "c", "e">>,
     EditedDocs |-> <<"E", "d", "i", "t", "e", "d", " ", "d", "o", "c", "s", " ", "a", "n", "d", " ", "t", "e", "s", "t", "s">>,
     Empty |-> <<>>]

MTask(id, task_id, title, description) ==
    [id |-> id, task_id |-> task_id, title |-> title, description |-> description]

MatcherTasks ==
    { <<>>,
      <<MTask("t1", "none", Tx.BuildLoginApi, Tx.Empty)>>,
      <<MTask("t1", "none", Tx.BuildLoginApi, Tx.Empty),
        MTask("t2", "none", Tx.FixBug, Tx.HandleCrash)>>,
      <<MTask("t1", "none", Tx.BuildLoginApi, Tx.Empty),
        MTask("t2", "none", Tx.FixBug, Tx.HandleCrash),
        MTask("none", "t3", Tx.Docs, Tx.Empty),
        MTask("t4", "none", Tx.WriteTests, Tx.Empty)>> }

LLMAnswers ==
    { [kind |-> "raise"], [kind |-> "text"],
      [kind |-> "json", object |-> FALSE],
      [kind |-> "json", object |-> TRUE, hasKey |-> FALSE],
      [kind |-> "json", object |-> TRUE, hasKey |-> TRUE, isList |-> FALSE] }
    \cup { [kind |-> "json", ids |-> ids, object |-> TRUE, hasKey |-> TRUE, isList |-> TRUE] :
             \* ids of the tasks, and ids of no task
             ids \in { <<>>, <<"t1">>, <<"unknown">>, <<"t2", "unknown", "t1">>,
                       <<"t1", "t1">>, <<"t3", "t4">> } }

\* ------------------------------------------------------------ tasks table
\* the ids the store gives to the rows of tasks, in order of insertion
TaskIdPool == <<"t1", "t2", "t3", "t4", "t5", "t6", "t7", "t8">>

TaskRow(id, brief_id, title, description, status) ==
    [id |-> id, status |-> status, brief_id |-> brief_id, title |-> title,
     description |-> description]

\* rows of tasks when the handlers start: two tasks of b1, one of b2
InitTasks ==
    << TaskRow("t1", "b1", Tx.BuildLoginApi, Tx.Empty, "todo"),
       TaskRow("t2", "b1", Tx.FixBug, Tx.HandleCrash, "todo"),
       TaskRow("t3", "b2", Tx.Docs, Tx.Empty, "todo") >>

\* supabase.table("tasks").select("*").eq("brief_id", brief_id)
TasksOfBrief(brief_id) == SelectSeq(task_table, LAMBDA t : t.brief_id = brief_id)

\* supabase.table("tasks").update({"status": status}).eq("id", task_id)
SetTaskStatus(rows, task_id, status) ==
    [i \in 1..Len(rows) |->
        IF rows[i].id = task_id THEN [rows[i] EXCEPT !.status = status] ELSE rows[i]]

Range(s) == {s[i] : i \in 1..Len(s)}

\* ------------------------------------------------------------ SubmissionAnalysisAgent
SignificantMinutes == 15
MaxSummaryLines == 5

RECURSIVE FallbackAppLines(_, _)
\* "Worked in {app} for {total_duration} minutes" for each app above the threshold
FallbackAppLines(acts, apps) ==
    IF apps = <<>> THEN <<>>
    ELSE (IF SumDuration(acts, Head(apps)) > SignificantMinutes
          THEN <<[app |-> Head(apps), mins |-> SumDuration(acts, Head(apps)), kind |-> "app"]>>
          ELSE <<>>)
         \o FallbackAppLines(acts, Tail(apps))

\* mutant: no default line when no application is above the threshold
GenerateFallbackSummary_NoDefault(acts) ==
    Take(FallbackAppLines(acts, AppOrder(acts, {})), MaxSummaryLines)

\* _generate_fallback_summary
GenerateFallbackSummary(acts) ==
    LET summaries == FallbackAppLines(acts, AppOrder(acts, {}))
    IN IF summaries = <<>> THEN <<[kind |-> "completed"]>>
       ELSE Take(summaries, MaxSummaryLines)

\* mutant: a failed analysis yields no summary line at all
analyze_submission_NoFallback(acts, llm) ==
    IF acts = <<>> THEN <<[kind |-> "noactivities"]>>
    ELSE IF llm.kind = "json" /\ llm.object /\ llm.hasSummary THEN llm.summary
    ELSE <<>>

\* analyze_submission(...)["summary"]: the summary of the model's JSON object when
\* it has one; the fallback summary when the call raises, the answer does not
\* parse, is no object or has no summary
analyze_submission(acts, llm) ==
    IF acts = <<>> THEN <<[kind |-> "noactivities"]>>
    ELSE IF llm.kind = "json" /\ llm.object /\ llm.hasSummary THEN llm.summary
    ELSE GenerateFallbackSummary(acts)

NoAnalysis == [phase |-> "none"]

\* the record of one analyze_submission call
AnalysisCall(acts, role, llm) ==
    [role |-> role, activities |-> acts, llm |-> llm, phase |-> "done",
     result |-> analyze_submission(acts, llm)]

\* one call of analyze_submission
AnalyzeSubmission(acts, role, llm) ==
    /\ analysis' = AnalysisCall(acts, role, llm)
    /\ UNCHANGED <<work_sessions, submissions, active_connections, reqs, task_table,
                   submission_activities, matcher, bcast, resp, wire>>

\* what the summarizer stage of create_submission meets: get_agent raises, or
\* the agent runs with one of the language model's outcomes
SummarizerOutcomes ==
    { [kind |-> "unavailable"], [kind |-> "raise"], [kind |-> "text"],
      [kind |-> "json", object |-> FALSE],
      [kind |-> "json", object |-> TRUE, hasSummary |-> FALSE],
      [kind |-> "json", summary |-> <<[n |-> 1, kind |-> "llm"], [n |-> 2, kind |-> "llm"]>>, object |-> TRUE,
       hasSummary |-> TRUE] }

\* ------------------------------------------------------------ create_submission
\* the brief lookup: .eq("id", briefId).eq("org_id", user["orgId"])
CreateBriefFound(briefId, org_id) ==
    /\ briefId \in BriefIds
    /\ org_id # NoOrg
    /\ Briefs[briefId].org_id = org_id

TextLines(summary) == [i \in 1..Len(summary) |-> [kind |-> "text", text |-> summary[i]]]

\* final_summary: the agent's summary, payload.summary when the stage raises
FinalSummary(payload, summarizer) ==
    IF summarizer.kind = "unavailable" THEN TextLines(payload.summary)
    ELSE analyze_submission(payload.activities, summarizer)

\* matched_task_ids: the matcher's result, [] when the stage raises
MatchedTaskIds(tasks, payload, matching) ==
    IF matching.kind = "unavailable" THEN <<>>
    ELSE match_tasks(tasks, payload.summary, payload.activities, matching)

\* submission_data of create_submission
CreateSubmission(caller, payload, final_summary, matched_task_ids) ==
    [status |-> "pending", user_id |-> caller.userId,
     role |-> payload.role, brief_id |-> payload.briefId,
     duration_minutes |-> payload.duration,
     summary_lines |-> final_summary, user_name |-> payload.userName,
     session_id |-> Null, matched_tasks |-> matched_task_ids, ai_analysis |-> "none"]

\* activities_data of create_submission
ActivityRows(submission_id, acts) ==
    [i \in 1..Len(acts) |->
        [app |-> acts[i].app, duration |-> acts[i].duration, submission_id |-> submission_id]]

\* the record of one match_tasks call
MatcherCall(tasks, summary, activities, llm) ==
    [summary |-> summary, activities |-> activities, tasks |-> tasks,
     llm |-> llm, phase |-> "done",
     result |-> match_tasks(tasks, summary, activities, llm)]

CreateFail(code, caller, payload, insertOk) ==
    /\ resp' = [op |-> "create", status |-> code, caller |-> caller,
                briefId |-> payload.briefId, insertOk |-> insertOk]
    /\ wire' = {}
    /\ UNCHANGED <<work_sessions, submissions, task_table, submission_activities,
                   active_connections, reqs, matcher, analysis, bcast>>

create_submission(caller, payload, summarizer, matching, insertOk, activitiesOk) ==
    /\ Len(submissions) + Cardinality({q \in Reqs : reqs[q] # Idle}) < MaxSubmissions
    /\ IF ~CreateBriefFound(payload.briefId, caller.orgId)
       THEN CreateFail(404, caller, payload, insertOk)
       ELSE IF ~insertOk THEN CreateFail(500, caller, payload, insertOk)
       ELSE
         LET final_summary == FinalSummary(payload, summarizer)
             matched_task_ids ==
                 MatchedTaskIds(TasksOfBrief(payload.briefId), payload, matching)
             id == Len(submissions) + 1
             event == [userId |-> caller.userId, briefId |-> payload.briefId,
                       submissionId |-> id, userName |-> payload.userName]
         IN /\ submissions' =
                  Append(submissions,
                         CreateSubmission(caller, payload, final_summary, matched_task_ids))
            /\ submission_activities' =
                  IF payload.activities # <<>> /\ activitiesOk
                  THEN submission_activities \o ActivityRows(id, payload.activities)
                  ELSE submission_activities
            /\ \E out \in BroadcastOutcomes(caller.orgId) :
                 /\ active_connections' = out.conns
                 /\ wire' = Envelopes(out.sent, "submission:new", event)
                 /\ resp' = [op |-> "create", status |-> AfterBroadcast(out.raised, 201),
                             payload |-> payload, caller |-> caller,
                             briefId |-> payload.briefId, insertOk |-> insertOk,
                             notifyRaised |-> out.raised, submissionId |-> id,
                             summaryLines |-> final_summary,
                             summarizer |-> summarizer,
                             matching |-> matching,
                             matchedTasks |-> matched_task_ids]
            /\ analysis' = IF summarizer.kind = "unavailable" THEN analysis
                           ELSE AnalysisCall(payload.activities, payload.role, summarizer)
            /\ matcher' = IF matching.kind = "unavailable" THEN matcher
                          ELSE MatcherCall(TasksOfBrief(payload.briefId), payload.summary,
                                           payload.activities, matching)
            /\ UNCHANGED <<work_sessions, task_table, reqs, bcast>>

\* submissions a client posts
CreatePayload(briefId, summary, duration, activities) ==
    [briefId |-> briefId, role |-> "dev", duration |-> duration, summary |-> summary,
     activities |-> activities, userName |-> "Ann"]

CreateActivity(app, summary, duration) ==
    [app |-> app, duration |-> duration, summary |-> summary]

CreatePayloads ==
    { CreatePayload("b1", <<Tx.ImplLogin>>, 30,
                    <<CreateActivity("Editor", Tx.EditedDocs, 20),
                      CreateActivity("Browser", Tx.Empty, 5)>>),
      CreatePayload("b1", <<Tx.Crashed>>, 0, <<>>),
      CreatePayload("b2", <<>>, 10, <<CreateActivity("Editor", Tx.Empty, 10)>>),
      CreatePayload("b0", <<>>, 10, <<>>) }

\* ------------------------------------------------------------ update_submission_status
\* mutant: the organisation of the brief is not compared with the caller's
ReviewAccess_Anyone(brief_id, org_id) == brief_id \in BriefIds

\* not brief.data or brief.data["org_id"] != user["orgId"] raises 403
ReviewAccess(brief_id, org_id) ==
    /\ brief_id \in BriefIds
    /\ Briefs[brief_id].org_id = org_id

\* the row after update_payload is applied: status and matched_tasks, each only
\* when its key is in update_data
ReviewUpdated(sub, update_data) ==
    [sub EXCEPT !.status = IF update_data.hasStatus THEN update_data.status ELSE @,
                !.matched_tasks =
                    IF update_data.hasMatched THEN update_data.matchedTasks ELSE @]

\* mutant: the cascade runs whatever the status of the review
ReviewCascades_AnyStatus(update_data, updated) == updated.matched_tasks # <<>>

\* update_data.get("status") == "approved" and updated.data[0].get("matched_tasks")
ReviewCascades(update_data, updated) ==
    /\ update_data.hasStatus
    /\ update_data.status = "approved"
    /\ updated.matched_tasks # <<>>

\* mutant: the approval sets every task to done
MarkDone_All(rows, ids) == [i \in 1..Len(rows) |-> [rows[i] EXCEPT !.status = "done"]]

\* mutant: the write flips a task that is already done back to todo
MarkDone_Toggle(rows, ids) ==
    [i \in 1..Len(rows) |->
        IF rows[i].id \in ids
        THEN [rows[i] EXCEPT !.status = IF @ = "done" THEN "todo" ELSE "done"]
        ELSE rows[i]]

\* the loop over matched_tasks: each id's rows are set to done unless its write
\* raised, which the loop swallows
MarkDone(rows, ids) ==
    [i \in 1..Len(rows) |->
        IF rows[i].id \in ids THEN [rows[i] EXCEPT !.status = "done"] ELSE rows[i]]

\* mutant: the first write that raises aborts the loop before any task is set
Written_AbortOnFailure(ids, failed) == IF failed = {} THEN ids ELSE {}

\* try: update(...).execute() except Exception: print(...): the ids whose write
\* did not raise; the loop goes on to the next id after a failure
Written(ids, failed) == ids \ failed

ReviewFail(code, caller, submission_id) ==
    /\ resp' = [op |-> "review", status |-> code, caller |-> caller,
                submissionId |-> submission_id, emitted |-> <<>>]
    /\ wire' = {}
    /\ UNCHANGED <<work_sessions, submissions, task_table, submission_activities,
                   active_connections, reqs, matcher, analysis, bcast>>

update_submission_status(caller, submission_id, update_data, updateOk, failed) ==
    IF submission_id \notin 1..Len(submissions) THEN ReviewFail(404, caller, submission_id)
    ELSE IF ~ReviewAccess(submissions[submission_id].brief_id, caller.orgId)
    THEN ReviewFail(403, caller, submission_id)
    ELSE IF ~updateOk THEN ReviewFail(500, caller, submission_id)
    ELSE
      LET sub == submissions[submission_id]
          updated == ReviewUpdated(sub, update_data)
          event == [briefId |-> sub.brief_id, taskIds |-> updated.matched_tasks]
          body == [id |-> submission_id, status |-> updated.status, updatedAt |-> "utcnow"]
      IN /\ submissions' = [submissions EXCEPT ![submission_id] = updated]
         /\ UNCHANGED <<work_sessions, submission_activities, reqs, matcher, analysis, bcast>>
         /\ IF ReviewCascades(update_data, updated)
            THEN /\ failed \subseteq Range(updated.matched_tasks)
                 /\ task_table' = MarkDone(task_table, Written(Range(updated.matched_tasks), failed))
                 /\ \E out \in BroadcastOutcomes(caller.orgId) :
                      /\ active_connections' = out.conns
                      /\ wire' = Envelopes(out.sent, "tasks:updated", event)
                      /\ resp' = [op |-> "review", status |-> AfterBroadcast(out.raised, 200),
                                  failed |-> failed, caller |-> caller,
                                  notifyRaised |-> out.raised, update |-> update_data,
                                  submissionId |-> submission_id,
                                  emitted |-> <<[org_id |-> caller.orgId,
                                                 type |-> "tasks:updated",
                                                 payload |-> event]>>, body |-> body,
                                  previous |-> sub.status,
                                  cascaded |-> TRUE]
            ELSE /\ failed = {}
                 /\ UNCHANGED <<task_table, active_connections>>
                 /\ wire' = {}
                 /\ resp' = [op |-> "review", status |-> 200,
                             failed |-> failed, caller |-> caller,
                             notifyRaised |-> FALSE, update |-> update_data,
                             submissionId |-> submission_id,
                             emitted |-> <<>>, body |-> body,
                             previous |-> sub.status,
                             cascaded |-> FALSE]

\* bodies a reviewer sends
ReviewUpdate(hasStatus, status, hasMatched, matchedTasks) ==
    [status |-> status, matchedTasks |-> matchedTasks,
     hasStatus |-> hasStatus, hasMatched |-> hasMatched]

ReviewUpdates ==
    { ReviewUpdate(TRUE, "approved", FALSE, <<>>),
      ReviewUpdate(TRUE, "rejected", FALSE, <<>>),
      ReviewUpdate(TRUE, "approved", TRUE, <<"t1", "t3">>),
      ReviewUpdate(TRUE, "banana", FALSE, <<>>),
      ReviewUpdate(FALSE, "none", TRUE, <<"t2">>) }

\* ------------------------------------------------------------ analyze_session
\* brief_id: the request's, else the brief of the request's session, else None
AnalyzeBrief(request) ==
    IF request.briefId # "none" THEN request.briefId
    ELSE IF request.sessionId \in 1..Len(work_sessions)
         THEN work_sessions[request.sessionId].brief_id
         ELSE "none"

\* updated.get("wasUpdated") and updated.get("taskId")
Applies(updated) == updated.wasUpdated /\ updated.taskId # "none"

\* updated.get("status", "in_progress")
NewStatus(updated) == IF updated.hasStatus THEN updated.status ELSE "in_progress"

RECURSIVE ApplyTaskUpdates(_, _)
\* the loop over result["updatedTasks"]
ApplyTaskUpdates(rows, items) ==
    IF items = <<>> THEN rows
    ELSE ApplyTaskUpdates(IF Applies(Head(items))
                          THEN SetTaskStatus(rows, Head(items).taskId, NewStatus(Head(items)))
                          ELSE rows,
                          Tail(items))

RECURSIVE UpdatedTaskIds(_)
\* updated_task_ids: appended after every update call, whatever it matched
UpdatedTaskIds(items) ==
    IF items = <<>> THEN <<>>
    ELSE (IF Applies(Head(items)) THEN <<Head(items).taskId>> ELSE <<>>)
         \o UpdatedTaskIds(Tail(items))

RECURSIVE InsertNewTasks(_, _, _)
\* the loop over result["newTasks"]: nothing without a brief; new_task["title"]
\* raises KeyError on an item without a title, after the earlier inserts
InsertNewTasks(rows, news, brief_id) ==
    IF news = <<>> \/ brief_id = "none"
    THEN [raised |-> FALSE, ids |-> <<>>, rows |-> rows]
    ELSE IF ~Head(news).hasTitle
    THEN [raised |-> TRUE, ids |-> <<>>, rows |-> rows]
    ELSE LET id == TaskIdPool[Len(rows) + 1]
             rest == InsertNewTasks(
                        Append(rows, TaskRow(id, brief_id, Head(news).title, Tx.Empty, "todo")),
                        Tail(news), brief_id)
         IN [raised |-> rest.raised, ids |-> <<id>> \o rest.ids, rows |-> rest.rows]

\* update({"ai_analysis": ..., "status": "reviewed"}).eq("id", submissionId)
AnalyzeSubmissionUpdate(rows, submissionId, aiSummary) ==
    [i \in 1..Len(rows) |->
        IF submissionId # Null /\ i = submissionId
        THEN [rows[i] EXCEPT !.ai_analysis = aiSummary, !.status = "reviewed"]
        ELSE rows[i]]

\* the body returned by the except json.JSONDecodeError branch
DegradedResult ==
    [aiSummary |-> "Session recorded but analysis failed. Please review manually.", updatedTasks |-> <<>>,
     newTasks |-> <<>>,
     issues |-> <<"Failed to parse AI analysis">>]

\* mutant: an answer that is not JSON is handled as any other exception
AnalyzeOutcome_ParseFatal(llm) ==
    IF llm.kind = "json" /\ llm.object THEN "apply" ELSE "fail"

\* the try block up to result.get: ainvoke raises or result is not an object
\* (except Exception, 500), json.loads raises (except JSONDecodeError, the
\* degraded body), or result is applied
AnalyzeOutcome(llm) ==
    IF llm.kind = "raise" \/ (llm.kind = "json" /\ ~llm.object) THEN "fail"
    ELSE IF llm.kind = "text" THEN "degraded"
    ELSE "apply"

AnalyzeFail(code, caller, request, llm) ==
    /\ resp' = [op |-> "analyze", status |-> code, caller |-> caller, request |-> request,
                answer |-> llm.kind]
    /\ wire' = {}

\* analyze_session from the answer of the language model on
AnalyzeApply(caller, request, llm) ==
    /\ Len(task_table) + (IF llm.kind = "json" /\ llm.object THEN Len(llm.newTasks) ELSE 0)
          <= MaxTasks
    /\ UNCHANGED <<work_sessions, submission_activities, matcher, analysis, bcast>>
    /\ IF AnalyzeOutcome(llm) = "fail"
       THEN /\ AnalyzeFail(500, caller, request, llm)
            /\ UNCHANGED <<submissions, task_table, active_connections>>
       ELSE IF AnalyzeOutcome(llm) = "degraded"
       THEN /\ resp' = [op |-> "analyze", status |-> 200, caller |-> caller,
                        notifyRaised |-> FALSE, body |-> DegradedResult, request |-> request,
                        degraded |-> TRUE, answer |-> llm.kind]
            /\ wire' = {}
            /\ UNCHANGED <<submissions, task_table, active_connections>>
       ELSE
         LET brief_id == AnalyzeBrief(request)
             inserted == InsertNewTasks(ApplyTaskUpdates(task_table, llm.updatedTasks),
                                        llm.newTasks, brief_id)
             event == [briefId |-> brief_id, sessionId |-> request.sessionId,
                       aiSummary |-> llm.aiSummary,
                       updatedTaskIds |-> UpdatedTaskIds(llm.updatedTasks), newTaskIds |-> inserted.ids]
         IN /\ task_table' = inserted.rows
            /\ IF inserted.raised
               THEN /\ AnalyzeFail(500, caller, request, llm)
                    /\ UNCHANGED <<submissions, active_connections>>
               ELSE /\ submissions' = AnalyzeSubmissionUpdate(submissions,
                                          request.submissionId, llm.aiSummary)
                    /\ \E out \in BroadcastOutcomes(caller.orgId) :
                         /\ active_connections' = out.conns
                         /\ wire' = Envelopes(out.sent, "workspace:updated", event)
                         /\ resp' = [op |-> "analyze",
                                     status |-> AfterBroadcast(out.raised, 200),
                                     caller |-> caller, notifyRaised |-> out.raised,
                                     result |-> llm,
                                     request |-> request, degraded |-> FALSE,
                                     answer |-> llm.kind,
                                     updatedTaskIds |-> UpdatedTaskIds(llm.updatedTasks),
                                     newTaskIds |-> inserted.ids]

\* analyze_session, the language model answering within the step
analyze_session(caller, request, llm) ==
    /\ AnalyzeApply(caller, request, llm)
    /\ UNCHANGED reqs

\* requests and language-model answers of analyze_session
AnalyzeRequest(sessionId, submissionId, briefId) ==
    [briefId |-> briefId, sessionId |-> sessionId, submissionId |-> submissionId]

UpdatedItem(taskId, wasUpdated, hasStatus, status) ==
    [status |-> status, hasStatus |-> hasStatus, wasUpdated |-> wasUpdated, taskId |-> taskId]

NewItem(hasTitle, title) == [title |-> title, hasTitle |-> hasTitle]

AnalyzeResult(updatedTasks, newTasks) ==
    [kind |-> "json", object |-> TRUE, aiSummary |-> "summary",
     updatedTasks |-> updatedTasks, newTasks |-> newTasks]

AnalyzeAnswers ==
    { [kind |-> "raise"], [kind |-> "text"], [kind |-> "json", object |-> FALSE],
      AnalyzeResult(<<UpdatedItem("t1", TRUE, TRUE, "done")>>, <<>>),
      AnalyzeResult(<<UpdatedItem("t9", TRUE, TRUE, "blocked"),
                      UpdatedItem("t2", FALSE, TRUE, "done")>>,
                    <<NewItem(TRUE, Tx.WriteTests)>>),
      AnalyzeResult(<<UpdatedItem("t3", TRUE, FALSE, "none")>>,
                    <<NewItem(FALSE, Tx.Empty)>>) }

\* ------------------------------------------------------------ the language-model call
\* await self.llm.ainvoke(...) as the event loop runs it: the caller is suspended
\* (waiting) until the client library returns or raises (answered); the
\* coroutine is then resumed and runs to its return (done).  ChatOpenAI is built
\* without a timeout and the await is not wrapped in one, so nothing but the
\* answer ends the wait.
MatchInvoke(tasks, summary, activities) ==
    /\ matcher.phase \in {"none", "done"}
    /\ matcher' = IF tasks = <<>>
                  THEN [summary |-> summary, activities |-> activities, tasks |-> tasks,
                        llm |-> [kind |-> "uncalled"], phase |-> "done",
                        result |-> <<>>]
                  ELSE [summary |-> summary, activities |-> activities, tasks |-> tasks,
                        phase |-> "waiting"]
    /\ UNCHANGED <<work_sessions, submissions, active_connections, reqs, task_table,
                   submission_activities, analysis, bcast, resp, wire>>

MatchAnswer(llm) ==
    /\ matcher.phase = "waiting"
    /\ matcher' = [summary |-> matcher.summary, activities |-> matcher.activities, tasks |-> matcher.tasks,
                   llm |-> llm, phase |-> "answered"]
    /\ UNCHANGED <<work_sessions, submissions, active_connections, reqs, task_table,
                   submission_activities, analysis, bcast, resp, wire>>

MatchResume ==
    /\ matcher.phase = "answered"
    /\ matcher' = [summary |-> matcher.summary, activities |-> matcher.activities, tasks |-> matcher.tasks,
                   llm |-> matcher.llm, phase |-> "done",
                   result |-> match_tasks(matcher.tasks, matcher.summary,
                                          matcher.activities, matcher.llm)]
    /\ UNCHANGED <<work_sessions, submissions, active_connections, reqs, task_table,
                   submission_activities, analysis, bcast, resp, wire>>

AnalysisInvoke(acts, role) ==
    /\ analysis.phase \in {"none", "done"}
    /\ analysis' = IF acts = <<>>
                   THEN AnalysisCall(acts, role, [kind |-> "uncalled"])
                   ELSE [role |-> role, activities |-> acts, phase |-> "waiting"]
    /\ UNCHANGED <<work_sessions, submissions, active_connections, reqs, task_table,
                   submission_activities, matcher, bcast, resp, wire>>

AnalysisAnswer(llm) ==
    /\ analysis.phase = "waiting"
    /\ analysis' = [role |-> analysis.role, activities |-> analysis.activities,
                    llm |-> llm, phase |-> "answered"]
    /\ UNCHANGED <<work_sessions, submissions, active_connections, reqs, task_table,
                   submission_activities, matcher, bcast, resp, wire>>

AnalysisResume ==
    /\ analysis.phase = "answered"
    /\ analysis' = AnalysisCall(analysis.activities, analysis.role, analysis.llm)
    /\ UNCHANGED <<work_sessions, submissions, active_connections, reqs, task_table,
                   submission_activities, matcher, bcast, resp, wire>>

\* analyze_session up to await llm.ainvoke
AnalyzeInvoke(r, caller, request) ==
    /\ reqs[r] = Idle
    /\ reqs' = [reqs EXCEPT ![r] = [pc |-> "llm", caller |-> caller, phase |-> "waiting",
                                    request |-> request]]
    /\ resp' = NoResp
    /\ wire' = {}
    /\ UNCHANGED <<work_sessions, submissions, active_connections, task_table,
                   submission_activities, matcher, analysis, bcast>>

AnalyzeAnswer(r, llm) ==
    /\ reqs[r].pc = "llm"
    /\ reqs[r].phase = "waiting"
    /\ reqs' = [reqs EXCEPT ![r] = [pc |-> "llm", caller |-> reqs[r].caller,
                                    llm |-> llm, phase |-> "answered",
                                    request |-> reqs[r].request]]
    /\ resp' = NoResp
    /\ wire' = {}
    /\ UNCHANGED <<work_sessions, submissions, active_connections, task_table,
                   submission_activities, matcher, analysis, bcast>>

AnalyzeResume(r) ==
    /\ reqs[r].pc = "llm"
    /\ reqs[r].phase = "answered"
    /\ AnalyzeApply(reqs[r].caller, reqs[r].request, reqs[r].llm)
    /\ reqs' = [reqs EXCEPT ![r] = Idle]

\* ------------------------------------------------------------ specifications
Init ==
    /\ work_sessions = <<>>
    /\ submissions = <<>>
    /\ active_connections = <<>>
    /\ task_table = InitTasks
    /\ submission_activities = <<>>
    /\ reqs = [r \in Reqs |-> Idle]
    /\ matcher = NoMatch
    /\ analysis = NoAnalysis
    /\ bcast = Idle
    /\ resp = NoResp
    /\ wire = {}

\* the clients of the lifecycle specification: the creator of b1 in its
\* organisation, and the creator of b2 without an organisation
SessionCallers ==
    { [userId |-> "u1", orgId |-> "o1"], [userId |-> "u3", orgId |-> NoOrg] }

\* start_session alone, for every identity and brief, with listeners coming and going
NextStart ==
    \/ \E w \in WS, org \in Orgs : Connect(w, org)
    \/ \E w \in WS, org \in Orgs : Disconnect(w, org)
    \/ \E c \in Callers, b \in BriefInputs, role \in Roles, ok \in BOOLEAN, t \in StartTimes :
         start_session(c, b, role, ok, t)

SpecStart == Init /\ [][NextStart]_vars

\* the session lifecycle, calls made one after the other: a single end_session
\* call is in flight at a time
Next ==
    \/ \E w \in {"w1"}, org \in {"o1"} : Connect(w, org)
    \/ \E w \in {"w1"}, org \in {"o1"} : Disconnect(w, org)
    \/ \E c \in SessionCallers, b \in BriefIds, role \in Roles, ok \in BOOLEAN,
          t \in StartTimes : start_session(c, b, role, ok, t)
    \/ \E c \in SessionCallers, sid \in 1..(MaxSessions + 1) : EndSelect(1, c, sid)
    \/ \E t \in {0, 60, 240} : EndUpdate(1, t)
    \/ \E p \in EndPayloads, outcome \in {"ok", "nodata", "raise"} :
         EndInsert(1, p.activities, p.summary, outcome)
    \/ EndNotify(1)

Spec == Init /\ [][Next]_vars

\* two end_session calls in flight: every interleaving of their store operations
NextConc ==
    \/ \E w \in {"w1"}, org \in {"o1"} : Connect(w, org)
    \/ \E c \in {[userId |-> "u1", orgId |-> "o1"]}, b \in {"b1"}, role \in Roles,
          ok \in BOOLEAN, t \in StartTimes : start_session(c, b, role, ok, t)
    \/ \E r \in Reqs, c \in {[userId |-> "u1", orgId |-> "o1"]}, sid \in 1..MaxSessions :
         EndSelect(r, c, sid)
    \/ \E r \in Reqs, t \in {60, 240} : EndUpdate(r, t)
    \/ \E r \in Reqs, p \in EndPayloads, outcome \in {"ok", "nodata", "raise"} :
         EndInsert(r, p.activities, p.summary, outcome)
    \/ \E r \in Reqs : EndNotify(r)

SpecConc == Init /\ [][NextConc]_vars

\* match_tasks alone, over task lists, evidence and language-model answers
NextMatcher ==
    \E tasks \in MatcherTasks,
       summary \in { <<>>, <<Tx.ImplLogin>>, <<Tx.Crashed>>, <<Tx.ImplLogin, Tx.Crashed>> },
       activities \in { <<>>, <<[app |-> "Editor", duration |-> 20,
                                 summary |-> Tx.EditedDocs]>> },
       llm \in LLMAnswers :
          MatchTasks(tasks, summary, activities, llm)

SpecMatcher == Init /\ [][NextMatcher]_vars

\* the five handlers that notify, called one after the other by a member of o1
\* while a listener of o1 comes and goes
NotifyCaller == [userId |-> "u1", orgId |-> "o1"]

NotifyCreatePayloads == {p \in CreatePayloads : p.briefId = "b1" /\ p.activities # <<>>}

NextNotify ==
    \/ \E w \in {"w1"}, org \in {"o1"} : Connect(w, org)
    \/ \E w \in {"w1"}, org \in {"o1"} : Disconnect(w, org)
    \/ \E role \in Roles, t \in StartTimes : start_session(NotifyCaller, "b1", role, TRUE, t)
    \/ \E sid \in 1..MaxSessions : EndSelect(1, NotifyCaller, sid)
    \/ \E t \in {240} : EndUpdate(1, t)
    \/ \E outcome \in {"ok", "nodata"} : EndInsert(1, <<>>, "notes", outcome)
    \/ EndNotify(1)
    \/ \E p \in NotifyCreatePayloads, ok \in BOOLEAN :
         create_submission(NotifyCaller, p, [kind |-> "unavailable"],
                           [kind |-> "json", ids |-> <<"t1">>, object |-> TRUE,
                            hasKey |-> TRUE, isList |-> TRUE], ok, TRUE)
    \/ \E id \in 1..(MaxSubmissions + 1),
          u \in {ReviewUpdate(TRUE, "approved", FALSE, <<>>),
                 ReviewUpdate(TRUE, "rejected", FALSE, <<>>)} :
         update_submission_status(NotifyCaller, id, u, TRUE, {})
    \/ \E sub \in {Null, 1},
          a \in {a \in AnalyzeAnswers : a.kind = "json" => (a.object /\ a.newTasks = <<>>)} :
         analyze_session(NotifyCaller, AnalyzeRequest(1, sub, "none"), a)

SpecNotify == Init /\ [][NextNotify]_vars

ReviewMatchings ==
    { [kind |-> "unavailable"],
      [kind |-> "json", ids |-> <<"t1", "t2">>, object |-> TRUE, hasKey |-> TRUE,
       isList |-> TRUE] }

\* submissions of b1 created by a member of o1 and reviewed by members of o1 and
\* of o2, with a listener of o1 connected or not
NextReview ==
    \/ \E w \in {"w1"}, org \in {"o1"} : Connect(w, org)
    \/ \E p \in NotifyCreatePayloads, m \in ReviewMatchings :
         create_submission(NotifyCaller, p, [kind |-> "unavailable"], m, TRUE, TRUE)
    \/ \E c \in { [userId |-> "u1", orgId |-> "o1"], [userId |-> "u1", orgId |-> "o2"] },
          id \in 1..(MaxSubmissions + 1),
          u \in { ReviewUpdate(TRUE, "approved", FALSE, <<>>),
                  ReviewUpdate(TRUE, "rejected", FALSE, <<>>),
                  ReviewUpdate(TRUE, "approved", TRUE, <<"t1", "t3">>) },
          ok \in BOOLEAN, failed \in SUBSET {"t1"} :
         update_submission_status(c, id, u, ok, failed)

SpecReview == Init /\ [][NextReview]_vars

\* submissions of b1 reviewed by a member of o1 with every body a client can send
NextReviewBodies ==
    \/ \E p \in NotifyCreatePayloads, m \in ReviewMatchings :
         create_submission(NotifyCaller, p, [kind |-> "unavailable"], m, TRUE, TRUE)
    \/ \E id \in 1..MaxSubmissions, u \in ReviewUpdates, ok \in BOOLEAN :
         update_submission_status(NotifyCaller, id, u, ok, {})

SpecReviewBodies == Init /\ [][NextReviewBodies]_vars

\* approvals and rejections, with and without a matchedTasks override, of
\* submissions of b1, a listener of o1 connected or not
NextReject ==
    \/ \E w \in {"w1"}, org \in {"o1"} : Connect(w, org)
    \/ \E p \in NotifyCreatePayloads, m \in ReviewMatchings :
         create_submission(NotifyCaller, p, [kind |-> "unavailable"], m, TRUE, TRUE)
    \/ \E id \in 1..MaxSubmissions,
          u \in { ReviewUpdate(TRUE, "approved", FALSE, <<>>),
                  ReviewUpdate(TRUE, "rejected", FALSE, <<>>),
                  ReviewUpdate(TRUE, "rejected", TRUE, <<"t2">>) },
          ok \in BOOLEAN :
         update_submission_status(NotifyCaller, id, u, ok, {})

SpecReject == Init /\ [][NextReject]_vars

\* analyze_session called by a member of o1 on a session of b1, on b1 itself or
\* on nothing, with and without a submission to annotate and a listener of o1
NextAnalyze ==
    \/ \E w \in {"w1"}, org \in {"o1"} : Connect(w, org)
    \/ \E role \in Roles, t \in StartTimes : start_session(NotifyCaller, "b1", role, TRUE, t)
    \/ \E p \in NotifyCreatePayloads :
         create_submission(NotifyCaller, p, [kind |-> "unavailable"], [kind |-> "unavailable"],
                           TRUE, TRUE)
    \/ \E q \in { AnalyzeRequest(1, Null, "none"), AnalyzeRequest(1, 1, "none"),
                  AnalyzeRequest(Null, 1, "b1"), AnalyzeRequest(Null, Null, "none") },
          a \in AnalyzeAnswers : analyze_session(NotifyCaller, q, a)

SpecAnalyze == Init /\ [][NextAnalyze]_vars

\* the registry alone.  Three sockets, two organisations, one event.
FanoutSockets == {"w1", "w2", "w3"}

\* broadcasts that run to their end before the next connect or disconnect
NextFanoutSeq ==
    \/ \E w \in FanoutSockets, org \in Orgs : bcast.pc # "send" /\ Connect(w, org)
    \/ \E w \in FanoutSockets, org \in Orgs : bcast.pc # "send" /\ Disconnect(w, org)
    \/ \E org \in Orgs : broadcast_event("session:started", [sessionId |-> 1], org)
    \/ \E ok \in BOOLEAN : BroadcastSent(ok)

SpecFanoutSeq == Init /\ [][NextFanoutSeq]_vars

\* connect and disconnect calls of other tasks run while a send is awaited
NextFanout ==
    \/ \E w \in FanoutSockets, org \in Orgs : Connect(w, org)
    \/ \E w \in FanoutSockets, org \in Orgs : Disconnect(w, org)
    \/ \E org \in Orgs : broadcast_event("session:started", [sessionId |-> 1], org)
    \/ \E ok \in BOOLEAN : BroadcastSent(ok)

SpecFanout == Init /\ [][NextFanout]_vars

LLMAnalyzeAnswers == { [kind |-> "raise"], [kind |-> "text"] }

\* the three operations that call the language model, each suspended at its
\* call until the model answers.  The event loop resumes a coroutine whose
\* awaited call has returned (weak fairness of the resume steps); nothing
\* obliges the model to answer.
NextLLM ==
    \/ \E tasks \in {<<>>, <<MTask("t1", "none", Tx.BuildLoginApi, Tx.Empty)>>} :
         MatchInvoke(tasks, <<Tx.ImplLogin>>, <<>>)
    \/ \E llm \in { [kind |-> "raise"],
                    [kind |-> "json", ids |-> <<"t1">>, object |-> TRUE, hasKey |-> TRUE,
                     isList |-> TRUE] } : MatchAnswer(llm)
    \/ MatchResume
    \/ \E acts \in { <<>>, <<CreateActivity("Editor", Tx.Empty, 20)>> } : AnalysisInvoke(acts, "dev")
    \/ \E llm \in LLMAnalyzeAnswers : AnalysisAnswer(llm)
    \/ AnalysisResume
    \/ AnalyzeInvoke(1, NotifyCaller, AnalyzeRequest(Null, Null, "b1"))
    \/ \E llm \in LLMAnalyzeAnswers : AnalyzeAnswer(1, llm)
    \/ AnalyzeResume(1)

SpecLLM ==
    /\ Init /\ [][NextLLM]_vars
    /\ WF_vars(MatchResume) /\ WF_vars(AnalysisResume) /\ WF_vars(AnalyzeResume(1))

\* sessions of b1 started at second 60 and ended after 0, 15, 100 and 180 seconds
NextDuration ==
    \/ \E w \in {"w1"}, org \in {"o1"} : Connect(w, org)
    \/ \E role \in Roles, t \in StartTimes : start_session(NotifyCaller, "b1", role, TRUE, t)
    \/ \E sid \in 1..MaxSessions : EndSelect(1, NotifyCaller, sid)
    \/ \E t \in {60, 75, 160, 240} : EndUpdate(1, t)
    \/ \E outcome \in {"ok", "nodata"} : EndInsert(1, <<>>, "notes", outcome)
    \/ EndNotify(1)

SpecDuration == Init /\ [][NextDuration]_vars

\* end_session with every shape of summary: no input at all, activities below a
\* minute, applications only, free text only, free text and applications
NextEndSummary ==
    \/ \E w \in {"w1"}, org \in {"o1"} : Connect(w, org)
    \/ \E role \in Roles, t \in StartTimes : start_session(NotifyCaller, "b1", role, TRUE, t)
    \/ \E sid \in 1..MaxSessions : EndSelect(1, NotifyCaller, sid)
    \/ \E t \in {75, 240} : EndUpdate(1, t)
    \/ \E summary \in {"none", "notes"}, outcome \in {"ok", "nodata", "raise"},
          acts \in { <<>>, <<Act("Editor", 30)>>,
                     <<Act("Browser", 300), Act("Editor", 1200), Act("Browser", 120)>>,
                     <<Act("Mail", 60), Act("Editor", 600), Act("Chat", 120), Act("Browser", 180)>> } :
          EndInsert(1, acts, summary, outcome)
    \/ EndNotify(1)

SpecEndSummary == Init /\ [][NextEndSummary]_vars

\* the writers of tasks.status: approvals of submissions matched to [t1, t2],
\* and analyze_session with answers that give a status of the prompt's list, no
\* status, and a status outside the list, for flagged and unflagged items
NextTaskStatus ==
    \/ \E w \in {"w1"}, org \in {"o1"} : Connect(w, org)
    \/ \E p \in NotifyCreatePayloads, m \in ReviewMatchings :
         create_submission(NotifyCaller, p, [kind |-> "unavailable"], m, TRUE, TRUE)
    \/ \E id \in 1..MaxSubmissions, failed \in SUBSET {"t1"} :
         update_submission_status(NotifyCaller, id, ReviewUpdate(TRUE, "approved", FALSE, <<>>),
                                  TRUE, failed)
    \/ \E q \in { AnalyzeRequest(Null, Null, "b1"), AnalyzeRequest(Null, 1, "none") },
          a \in { AnalyzeResult(<<UpdatedItem("t1", TRUE, TRUE, "done"),
                                  UpdatedItem("t2", TRUE, FALSE, "none")>>, <<>>),
                  AnalyzeResult(<<UpdatedItem("t2", TRUE, TRUE, "blocked")>>, <<>>),
                  AnalyzeResult(<<UpdatedItem("t1", FALSE, TRUE, "blocked")>>,
                                <<NewItem(TRUE, Tx.WriteTests)>>) } :
         analyze_session(NotifyCaller, q, a)

SpecTaskStatus == Init /\ [][NextTaskStatus]_vars

\* create_submission alone: every outcome of one of its two agent stages, met
\* together with a failure of the other
CreateStages ==
    {sm \in SummarizerOutcomes \X
               ({ [kind |-> "unavailable"] }
                \cup {a \in LLMAnswers :
                         a.kind = "json" /\ a.object /\ a.hasKey /\ a.isList
                            => a.ids = <<"t2", "unknown", "t1">>}) :
        sm[1].kind \in {"unavailable", "raise"} \/ sm[2].kind \in {"unavailable", "text"}}

NextCreate ==
    \E c \in SessionCallers, p \in CreatePayloads, sm \in CreateStages, ok \in BOOLEAN :
          create_submission(c, p, sm[1], sm[2], ok, TRUE)

SpecCreate == Init /\ [][NextCreate]_vars

SummarizerActivities ==
    { <<>>,
      <<CreateActivity("Editor", Tx.Empty, 20), CreateActivity("Browser", Tx.Empty, 5)>>,
      <<CreateActivity("Editor", Tx.Empty, 10), CreateActivity("Browser", Tx.Empty, 5)>>,
      <<CreateActivity("Editor", Tx.Empty, 10), CreateActivity("Browser", Tx.Empty, 30),
        CreateActivity("Editor", Tx.Empty, 6)>>,
      <<CreateActivity("Editor", Tx.Empty, 15)>>,
      <<CreateActivity("Editor", Tx.Empty, 16)>>,
      <<CreateActivity("A", Tx.Empty, 20), CreateActivity("B", Tx.Empty, 20),
        CreateActivity("C", Tx.Empty, 20), CreateActivity("D", Tx.Empty, 20),
        CreateActivity("E", Tx.Empty, 20), CreateActivity("F", Tx.Empty, 20)>> }

\* analyze_submission alone, over activity lists (durations in minutes), roles
\* and outcomes of the language model
NextSummarizer ==
    \E acts \in SummarizerActivities, role \in {"pm", "dev", "designer"},
       llm \in SummarizerOutcomes \ {[kind |-> "unavailable"]} :
          AnalyzeSubmission(acts, role, llm)

SpecSummarizer == Init /\ [][NextSummarizer]_vars

\* ------------------------------------------------------------ claims
SubmissionsOf(sid) == {i \in 1..Len(submissions) : submissions[i].session_id = sid}

InFlight(sid) == \E r \in Reqs : reqs[r] # Idle /\ reqs[r].sid = sid

\* C1: calls made one after the other: once a session is completed and its end
\* call has returned, every end on that id answers 404, adds no Submission and
\* leaves the session row as it is; no session ever has two Submissions.
C1_NoDoubleSubmission ==
    [][ /\ \A sid \in 1..Len(work_sessions') : Cardinality(SubmissionsOf(sid))' <= 1
        /\ \A sid \in 1..Len(work_sessions) :
             (work_sessions[sid].status = "completed" /\ ~InFlight(sid)) =>
                /\ work_sessions'[sid] = work_sessions[sid]
                /\ SubmissionsOf(sid)' = SubmissionsOf(sid)
                /\ ~InFlight(sid)'
                /\ (resp'.op = "end" /\ resp'.sessionId = sid) => resp'.status = 404
      ]_vars

C1_Witness ==
    /\ resp.op = "end" /\ resp.status = 404
    /\ resp.sessionId \in 1..Len(work_sessions)
    /\ work_sessions[resp.sessionId].status = "completed"
    /\ Cardinality(SubmissionsOf(resp.sessionId)) = 1

\* C3: every completed session and every Submission of a session has
\* duration_minutes >= 1, also when the end time is not after the start time,
\* and a successful end returns the value stored on the row and the Submission.
C3_DurationAtLeastOne ==
    /\ \A sid \in 1..Len(work_sessions) :
          work_sessions[sid].status = "completed" => work_sessions[sid].duration_minutes >= 1
    /\ \A i \in 1..Len(submissions) :
          submissions[i].session_id # Null => submissions[i].duration_minutes >= 1
    /\ (resp.op = "end" /\ resp.status = 200) =>
          /\ resp.durationMinutes >= 1
          /\ work_sessions[resp.sessionId].duration_minutes = resp.durationMinutes
          /\ resp.submissionId # Null =>
                submissions[resp.submissionId].duration_minutes = resp.durationMinutes

C3_Witness ==
    /\ resp.op = "end" /\ resp.status = 200 /\ resp.submissionId # Null
    /\ work_sessions[resp.sessionId].ended_at <= work_sessions[resp.sessionId].started_at

\* C4: an end call on an id with no active session answers 404, an end call on
\* an active session of another user answers 403, and in both cases no table,
\* no listener set and no listener's stream changes.
C4_EndRejects ==
    [][ \A r \in Reqs :
          (reqs[r] = Idle /\ (reqs'[r] # Idle \/ (resp'.op = "end" /\ resp'.req = r))) =>
             LET sid == IF reqs'[r] # Idle THEN reqs'[r].sid ELSE resp'.sessionId
                 user == IF reqs'[r] # Idle THEN reqs'[r].user_id ELSE resp'.userId
                 active == sid \in 1..Len(work_sessions) /\ work_sessions[sid].status = "active"
             IN /\ ~active => (reqs'[r] = Idle /\ resp'.status = 404)
                /\ (active /\ work_sessions[sid].user_id # user) =>
                      (reqs'[r] = Idle /\ resp'.status = 403)
                /\ reqs'[r] = Idle =>
                      /\ UNCHANGED <<work_sessions, submissions, task_table, submission_activities,
                                     active_connections>>
                      /\ wire' = {}
      ]_vars

C4_Witness ==
    /\ resp.op = "end" /\ resp.status = 403
    /\ work_sessions[resp.sessionId].status = "active"
    /\ work_sessions[resp.sessionId].user_id # resp.userId

\* C5: a successful end returns the id of a persisted Submission with status
\* pending whose brief, user, role and duration are those of the ended session.
C5_EndPersistsSubmission ==
    (resp.op = "end" /\ resp.status = 200) =>
       /\ resp.submissionId \in 1..Len(submissions)
       /\ LET sub == submissions[resp.submissionId]
              ses == work_sessions[resp.sessionId]
          IN /\ sub.status = "pending"
             /\ sub.session_id = resp.sessionId
             /\ sub.brief_id = ses.brief_id
             /\ sub.user_id = ses.user_id
             /\ sub.role = ses.role
             /\ sub.duration_minutes = ses.duration_minutes

\* C6: start answers 404 exactly when the brief is missing, 403 exactly when it
\* exists and the caller is neither its creator nor in its organisation, and
\* goes on to create the session otherwise.
C6_StartAccess ==
    resp.op = "start" =>
       LET c == resp.caller
           exists == resp.briefId \in BriefIds
           brief == Briefs[resp.briefId]
           granted ==
              /\ exists
              /\ \/ brief.created_by = c.userId
                 \/ c.orgId # NoOrg /\ c.orgId = brief.org_id
                 \/ c.orgId = NoOrg /\ brief.org_id = NoOrg /\ brief.created_by = c.userId
       IN /\ resp.status = 404 <=> ~exists
          /\ resp.status = 403 <=> (exists /\ ~granted)
          /\ resp.status \in {200, 500} <=> granted

C6_Witness ==
    /\ resp.op = "start" /\ resp.status = 200
    /\ Briefs[resp.briefId].created_by # resp.caller.userId

\* C7: a successful start appends exactly one row, active, of the caller, for
\* the requested brief and role; a start answered 404 or 403 appends no row and
\* delivers no envelope.
C7_StartInsertsOneRow ==
    [][ resp'.op = "start" =>
          /\ resp'.status = 200 =>
                /\ Len(work_sessions') = Len(work_sessions) + 1
                /\ SubSeq(work_sessions', 1, Len(work_sessions)) = work_sessions
                /\ resp'.sessionId = Len(work_sessions')
                /\ LET row == work_sessions'[resp'.sessionId]
                   IN /\ row.status = "active"
                      /\ row.user_id = resp'.caller.userId
                      /\ row.brief_id = resp'.briefId
                      /\ row.role = resp'.role
          /\ resp'.status \in {403, 404} =>
                /\ work_sessions' = work_sessions
                /\ wire' = {}
      ]_vars

C7_Witness ==
    /\ resp.op = "start" /\ resp.status = 200 /\ resp.sessionId = 2
    /\ work_sessions[2].user_id # work_sessions[1].user_id


\* C8: on a successful start every listener registered under the organisation
\* of the brief, whose send did not fail, receives session:started.
C8_StartedReachesBriefOrg ==
    [][ (resp'.op = "start" /\ resp'.status = 200 /\ ~resp'.notifyRaised) =>
          LET org == Briefs[resp'.briefId].org_id
          IN \A w \in Listeners(active_connections, org) :
                w \in Listeners(active_connections', org) =>
                   \E e \in wire' : /\ e.to = w
                                    /\ e.type = "session:started"
                                    /\ e.payload.sessionId = resp'.sessionId
      ]_vars


\* C2: whatever the interleaving of two end calls, a session never has more
\* than one Submission.
C2_AtMostOneSubmissionPerSession ==
    \A sid \in 1..Len(work_sessions) : Cardinality(SubmissionsOf(sid)) <= 1

\* C10: every id match_tasks returns is the id of one of the tasks it was given,
\* and with no tasks it returns nothing.
C10_MatchedWithinTasks ==
    matcher.phase = "done" =>
       /\ \A i \in 1..Len(matcher.result) : matcher.result[i] \in ValidTaskIds(matcher.tasks)
       /\ matcher.tasks = <<>> => matcher.result = <<>>

C10_Witness ==
    /\ matcher.phase = "done"
    /\ LLMUsable(matcher.llm) /\ matcher.llm.hasKey
    /\ \E i \in 1..Len(matcher.llm.ids) : matcher.llm.ids[i] = "unknown"
    /\ matcher.result # <<>>

NotifyRaised(r) == "notifyRaised" \in DOMAIN r /\ r.notifyRaised

\* C9: a broadcast that raises is never fatal.  Whenever start, end, analyze,
\* create_submission or review completes a call whose broadcast raised, the
\* response carries the success status of the operation, and the store holds
\* what the operation persists when the broadcast succeeds: the new active
\* session, the completed session with its submission, the new pending
\* submission, the reviewed status with its matched tasks done, the analysed
\* submission marked reviewed.
C9_NotifyFailureNotFatal ==
    [][NotifyRaised(resp') =>
         /\ resp'.op \in {"start", "end", "create", "review", "analyze"}
         /\ resp'.status = (IF resp'.op = "create" THEN 201 ELSE 200)
         /\ (resp'.op = "start" =>
               /\ Len(work_sessions') = Len(work_sessions) + 1
               /\ work_sessions'[resp'.sessionId].status = "active"
               /\ work_sessions'[resp'.sessionId].brief_id = resp'.briefId)
         /\ (resp'.op = "end" =>
               /\ work_sessions'[resp'.sessionId].status = "completed"
               /\ submissions' = submissions
               /\ (resp'.submissionId # Null =>
                     submissions'[resp'.submissionId].session_id = resp'.sessionId))
         /\ (resp'.op = "create" =>
               /\ Len(submissions') = Len(submissions) + 1
               /\ submissions'[resp'.submissionId].status = "pending"
               /\ submissions'[resp'.submissionId].brief_id = resp'.briefId)
         /\ (resp'.op = "review" =>
               /\ submissions'[resp'.submissionId].status = resp'.update.status
               /\ \A i \in 1..Len(task_table') :
                     task_table'[i].id \in
                         Range(submissions'[resp'.submissionId].matched_tasks)
                             \ resp'.failed
                     => task_table'[i].status = "done")
         /\ (resp'.op = "analyze" =>
               (resp'.request.submissionId \in 1..Len(submissions') =>
                  submissions'[resp'.request.submissionId].status = "reviewed"))
    ]_vars

\* a review whose approval marked tasks done answered 200 although its
\* broadcast raised
C9_Witness ==
    /\ NotifyRaised(resp)
    /\ resp.op = "review"
    /\ resp.status = 200
    /\ \E i \in 1..Len(task_table) : task_table[i].status = "done"

\* C11: in every reachable state the matched_tasks of each persisted submission
\* are ids of tasks of the submission's brief, whether the matcher wrote them
\* at creation or a review call wrote them as an override.  (Tasks are never
\* deleted, so an id valid when written stays valid.)
C11_MatchedTasksOfBrief ==
    \A i \in 1..Len(submissions) :
       Range(submissions[i].matched_tasks)
          \subseteq {task_table[k].id : k \in {j \in 1..Len(task_table) :
                                                task_table[j].brief_id = submissions[i].brief_id}}

\* C12: a failing language model never fails create_submission.  Whenever the
\* brief is found and the store accepts the insert, whatever the two agent
\* stages met, the call answers 201 and appends exactly one submission with
\* status pending.  When the summarizer stage cannot be entered the summary is
\* the caller's; when its language model raises, answers no JSON, no object or
\* no summary, the summary is non-empty and built from the activities alone.
\* When the matcher stage cannot be entered the match list is empty; when its
\* language model fails the list is the keyword fallback.
C12_LLMFailureAbsorbed ==
    [][(resp'.op = "create" /\ resp'.insertOk
          /\ CreateBriefFound(resp'.briefId, resp'.caller.orgId)) =>
         LET s == resp'.summarizer
             m == resp'.matching
             p == resp'.payload
             row == submissions'[Len(submissions')]
         IN /\ resp'.status = 201
            /\ Len(submissions') = Len(submissions) + 1
            /\ resp'.submissionId = Len(submissions')
            /\ row.status = "pending"
            /\ (s.kind = "unavailable" => row.summary_lines = TextLines(p.summary))
            /\ ((s.kind \in {"raise", "text"}
                   \/ (s.kind = "json" /\ ~(s.object /\ s.hasSummary))) =>
                  /\ row.summary_lines # <<>>
                  /\ \A k \in 1..Len(row.summary_lines) :
                        row.summary_lines[k].kind \in {"app", "completed", "noactivities"}
                  /\ row.summary_lines = resp'.summaryLines)
            /\ (m.kind = "unavailable" => row.matched_tasks = <<>>)
            /\ (m.kind \in {"raise", "text"} =>
                  row.matched_tasks =
                     FallbackMatching(TasksOfBrief(p.briefId), p.summary, p.activities))
    ]_vars

\* a submission was created although the summarizer's language model raised
\* and the matcher's answered text that is no JSON
C12_Witness ==
    /\ resp.op = "create"
    /\ resp.status = 201
    /\ resp.summarizer.kind = "raise"
    /\ resp.matching.kind = "text"
    /\ resp.payload.activities # <<>>
    /\ submissions[resp.submissionId].status = "pending"

\* C13: when end persists its submission, the summarizer has been called with
\* the request's activities and the session's role, and the persisted
\* summary_lines are the call's output when its language model answered a
\* summary, the deterministic fallback of end otherwise.
C13_EndUsesSummarizer ==
    [][(Len(submissions') = Len(submissions) + 1
          /\ submissions'[Len(submissions')].session_id # Null) =>
         LET row == submissions'[Len(submissions')]
         IN /\ analysis'.phase = "done"
            /\ analysis'.role = row.role
            /\ \E r \in Reqs :
                  /\ reqs'[r] # Idle
                  /\ reqs'[r].sid = row.session_id
                  /\ analysis'.activities = reqs'[r].activities
                  /\ row.summary_lines =
                        IF analysis'.llm.kind = "json" /\ analysis'.llm.object
                              /\ analysis'.llm.hasSummary
                        THEN analysis'.result
                        ELSE reqs'[r].summary_lines
    ]_vars

\* C14: when end persists its submission, the matcher has been called with the
\* current tasks of the session's brief, and the persisted matched_tasks are
\* the call's result.
C14_EndUsesMatcher ==
    [][(Len(submissions') = Len(submissions) + 1
          /\ submissions'[Len(submissions')].session_id # Null) =>
         LET row == submissions'[Len(submissions')]
         IN /\ matcher'.phase = "done"
            /\ matcher'.tasks = TasksOfBrief(row.brief_id)
            /\ row.matched_tasks = matcher'.result
    ]_vars

\* C16: in the summary of a session ended with activities and no free text, an
\* application has a line "Worked in <app> for <N> minutes" if and only if its
\* summed durations exceed the 15-minute threshold.
C16_EndSummaryThreshold ==
    (resp.op = "end" /\ resp.status = 200 /\ resp.summary = "none") =>
       \A i \in 1..Len(resp.activities) :
          LET app == resp.activities[i].app
          IN (\E k \in 1..Len(resp.summaryLines) :
                 resp.summaryLines[k].kind = "app" /\ resp.summaryLines[k].app = app)
             <=> (SumDuration(resp.activities, app) \div 60 > SignificantMinutes)

\* the language model of a recorded analyze_submission call gave no summary:
\* it raised, answered no JSON, no object, or an object without a summary
AnalysisFailed(call) ==
    call.phase = "done" /\ ~(call.llm.kind = "json" /\ call.llm.object /\ call.llm.hasSummary)

C17_KeywordFallback ==
    (matcher.phase = "done" /\ matcher.llm.kind \in {"raise", "text"}) =>
       LET all_text == AllText(matcher.summary, matcher.activities)
           words(text) == Range(Split(Lower(text)))
           selected == {i \in 1..Len(matcher.tasks) :
                          \/ \E w \in words(matcher.tasks[i].title) :
                                Len(w) > 3 /\ Contains(all_text, w)
                          \/ \E w \in words(matcher.tasks[i].description) :
                                Len(w) > 4 /\ Contains(all_text, w)}
       IN /\ Len(matcher.result) =
                (IF Cardinality(selected) > 3 THEN 3 ELSE Cardinality(selected))
          /\ \A k \in 1..Len(matcher.result) :
                \E i \in selected :
                   /\ Cardinality({j \in selected : j < i}) = k - 1
                   /\ matcher.result[k] = TaskId(matcher.tasks[i])

\* task t1 "Build login API" and the summary "Implemented login API endpoint",
\* with a language model that raises, give ["t1"]
C17_Witness ==
    /\ matcher.phase = "done"
    /\ matcher.llm.kind = "raise"
    /\ Len(matcher.tasks) = 1
    /\ matcher.tasks[1].title = Tx.BuildLoginApi
    /\ matcher.summary = <<Tx.ImplLogin>>
    /\ matcher.activities = <<>>
    /\ matcher.result = <<"t1">>

\* a review call that set the status approved and answered 200
Approved(r) ==
    r.op = "review" /\ r.status = 200 /\ r.update.hasStatus /\ r.update.status = "approved"

\* C18 as stated: after a successful approval every task whose id is in the
\* submission's matched_tasks has status done.
C18_AllMatchedDone ==
    Approved(resp) =>
       \A i \in 1..Len(task_table) :
          task_table[i].id \in Range(submissions[resp.submissionId].matched_tasks)
             => task_table[i].status = "done"

\* C18, amended: a successful approval sets to done the tasks whose id is in the
\* submission's matched_tasks as just updated (the override when the call
\* supplies one) and whose write did not fail, and changes no other task.
C18_ApprovalCascade ==
    [][Approved(resp') =>
         LET ids == Range(submissions'[resp'.submissionId].matched_tasks) \ resp'.failed
         IN /\ (resp'.update.hasMatched =>
                  submissions'[resp'.submissionId].matched_tasks = resp'.update.matchedTasks)
            /\ Len(task_table') = Len(task_table)
            /\ \A i \in 1..Len(task_table) :
                  IF task_table[i].id \in ids
                  THEN task_table'[i] = [task_table[i] EXCEPT !.status = "done"]
                  ELSE task_table'[i] = task_table[i]
    ]_vars

\* an approval that overrode the stored [t1, t2] by [t1, t3]: t1 and t3 are done,
\* t2 is not
C18_Witness ==
    /\ Approved(resp)
    /\ resp.update.hasMatched
    /\ resp.failed = {}
    /\ submissions[resp.submissionId].matched_tasks = <<"t1", "t3">>
    /\ \A i \in 1..Len(task_table) :
          task_table[i].status = (IF task_table[i].id \in {"t1", "t3"} THEN "done" ELSE "todo")

\* C19: a successful approval emits tasks:updated exactly once, to the caller's
\* organisation, with the submission's matched task ids; a review call that
\* fails emits nothing.
C19_ApprovalEmitsOnce ==
    resp.op = "review" =>
       IF Approved(resp)
       THEN /\ Len(resp.emitted) = 1
            /\ resp.emitted[1].type = "tasks:updated"
            /\ resp.emitted[1].org_id = resp.caller.orgId
            /\ resp.emitted[1].payload.taskIds =
                  submissions[resp.submissionId].matched_tasks
       ELSE (resp.status # 200 => resp.emitted = <<>>)

C21_ReviewRejects ==
    [][resp'.op = "review" =>
         LET id == resp'.submissionId
             missing == id \notin 1..Len(submissions)
             foreign == /\ ~missing
                        /\ (submissions[id].brief_id \in BriefIds =>
                              Briefs[submissions[id].brief_id].org_id # resp'.caller.orgId)
         IN /\ missing => resp'.status = 404
            /\ foreign => resp'.status = 403
            /\ (missing \/ foreign) =>
                  /\ UNCHANGED <<submissions, task_table, active_connections>>
                  /\ wire' = {}
                  /\ resp'.emitted = <<>>
    ]_vars

\* a member of o2 was refused the review of a stored submission of a brief of o1
\* that has matched tasks, while a listener of o1 was connected
C21_Witness ==
    /\ resp.op = "review" /\ resp.status = 403
    /\ resp.submissionId \in 1..Len(submissions)
    /\ Briefs[submissions[resp.submissionId].brief_id].org_id # resp.caller.orgId
    /\ submissions[resp.submissionId].matched_tasks # <<>>
    /\ submissions[resp.submissionId].status = "pending"
    /\ "o1" \in DOMAIN active_connections

\* C22: a review whose status is neither approved nor rejected is refused and
\* changes nothing: no review with another status succeeds, and the status of
\* every stored submission is one of pending, approved, rejected, reviewed.
C22_ReviewStatusValidated ==
    /\ \A i \in 1..Len(submissions) :
          submissions[i].status \in {"pending", "approved", "rejected", "reviewed"}
    /\ (resp.op = "review" /\ resp.status = 200 /\ resp.update.hasStatus) =>
          resp.update.status \in {"approved", "rejected"}

\* C23: analyze writes only tasks of the resolved brief: every task row it
\* changes belongs to that brief, and every id in updatedTaskIds, in the response
\* and in workspace:updated, is the id of a task of that brief.
C23_AnalyzeOnlyBriefTasks ==
    [][resp'.op = "analyze" =>
         LET brief_id == AnalyzeBrief(resp'.request)
             ids == {task_table[i].id : i \in {j \in 1..Len(task_table) :
                                                  task_table[j].brief_id = brief_id}}
         IN /\ \A i \in 1..Len(task_table) :
                  task_table'[i] # task_table[i] => task_table[i].id \in ids
            /\ (resp'.status = 200 /\ ~resp'.degraded) =>
                  /\ Range(resp'.updatedTaskIds) \subseteq ids
                  /\ \A e \in wire' : Range(e.payload.updatedTaskIds) \subseteq ids
    ]_vars

\* C24: when the answer of the language model is not JSON, analyze answers 200
\* with the fixed degraded body and writes no task, submission or session row,
\* and notifies nobody.
C24_AnalyzeDegraded ==
    [][(resp'.op = "analyze" /\ resp'.answer = "text") =>
         /\ resp'.status = 200
         /\ resp'.body.updatedTasks = <<>>
         /\ resp'.body.newTasks = <<>>
         /\ resp'.body.issues = <<"Failed to parse AI analysis">>
         /\ resp'.body.aiSummary = DegradedResult.aiSummary
         /\ UNCHANGED <<task_table, submissions, work_sessions, active_connections>>
         /\ wire' = {}
    ]_vars

\* a degraded answer to a request that named a session and a pending submission,
\* while a listener of the caller's organisation was connected
C24_Witness ==
    /\ resp.op = "analyze" /\ resp.answer = "text" /\ resp.status = 200
    /\ resp.request.sessionId \in 1..Len(work_sessions)
    /\ resp.request.submissionId \in 1..Len(submissions)
    /\ submissions[resp.request.submissionId].status = "pending"
    /\ "o1" \in DOMAIN active_connections

\* a broadcast_to_org call returned or raised in this step
BcastEnds == bcast.pc # "done" /\ bcast'.pc = "done"

\* C25: a broadcast delivers the envelope once to every listener registered
\* under the organisation whose send does not fail, in that listener's stream
\* only, and to no listener of another organisation; with no listener
\* registered it changes nothing.
C25_BroadcastDelivers ==
    [][/\ \A e \in wire' :
             /\ bcast.pc = "send" /\ e.to = bcast.cur
             /\ e.to \in bcast.initial
             /\ e.type = bcast.type /\ e.payload = bcast.payload
       /\ BcastEnds =>
             LET b == bcast'
             IN /\ ~b.raised
                /\ \A i, j \in 1..Len(b.delivered) :
                      b.delivered[i] = b.delivered[j] => i = j
                /\ Range(b.delivered) = b.initial \ b.disconnected
                /\ \A o \in DOMAIN active_connections' \ {b.org_id} :
                      Range(b.delivered) \cap active_connections'[o] = {}
                /\ b.initial = {} =>
                      /\ active_connections' = active_connections
                      /\ wire' = {}
    ]_vars

\* a broadcast reached both listeners of its organisation while the other
\* organisation had a listener
C25_Witness ==
    /\ bcast.pc = "done"
    /\ Len(bcast.delivered) = 2
    /\ \E o \in DOMAIN active_connections \ {bcast.org_id} : active_connections[o] # {}

\* C26: a listener whose send fails is removed from the set of the organisation
\* when the broadcast returns, the other listeners still get the envelope, and
\* those whose send succeeded are still registered.
C26_FailedListenerDropped ==
    [][(BcastEnds /\ bcast'.initial # {}) =>
         LET b == bcast'
         IN /\ Listeners(active_connections', b.org_id) \cap b.disconnected = {}
            /\ b.initial \ b.disconnected \subseteq Range(b.delivered)
            /\ Range(b.delivered) \subseteq Listeners(active_connections', b.org_id)
    ]_vars

\* a broadcast to three listeners: one send failed, that listener is gone and
\* the two others got the envelope and are still registered
C26_Witness ==
    /\ bcast.pc = "done"
    /\ Cardinality(bcast.initial) = 3
    /\ Cardinality(bcast.disconnected) = 1
    /\ Len(bcast.delivered) = 2
    /\ active_connections[bcast.org_id] = Range(bcast.delivered)

\* C27: with connect and disconnect calls running while a send is awaited, a
\* broadcast does not raise, reaches every listener that stayed registered and
\* whose send did not fail, and leaves registered no listener whose send failed.
C27_ConcurrentRegistry ==
    [][BcastEnds =>
         LET b == bcast'
         IN /\ ~b.raised
            /\ b.stayed \ b.disconnected \subseteq Range(b.delivered)
            /\ Listeners(active_connections', b.org_id) \cap b.disconnected = {}
    ]_vars

\* C28: every operation that calls the language model completes, whether or not
\* the model answers: a matcher call, a summarizer call and an analyze call that
\* wait for the model are eventually over.
C28_LLMCallsComplete ==
    /\ (matcher.phase = "waiting") ~> (matcher.phase = "done")
    /\ (analysis.phase = "waiting") ~> (analysis.phase = "done")
    /\ (reqs[1] # Idle /\ reqs[1].pc = "llm") ~> (reqs[1] = Idle)

\* C29: the duration of a completed session is the elapsed time rounded to the
\* nearest minute (halves to the even minute), and at least 1: 100 seconds
\* elapsed give 2.
C29_DurationRounded ==
    \A sid \in 1..Len(work_sessions) :
       work_sessions[sid].status = "completed" =>
          LET seconds == work_sessions[sid].ended_at - work_sessions[sid].started_at
              q == seconds \div 60
              r == seconds % 60
              rounded == IF r < 30 THEN q
                         ELSE IF r > 30 THEN q + 1
                         ELSE IF q % 2 = 0 THEN q ELSE q + 1
          IN work_sessions[sid].duration_minutes = Max(1, rounded)

\* C30: an end call never answers success when the Submission was not
\* persisted: a 200 carries a submissionId, and a Submission of the ended
\* session is stored.
C30_EndFatalWithoutSubmission ==
    (resp.op = "end" /\ resp.status = 200) =>
       /\ resp.submissionId # Null
       /\ \E i \in 1..Len(submissions) : submissions[i].session_id = resp.sessionId

\* C31: the application lines of the summary a failed analyze_submission call
\* falls back to are in descending order of minutes and there are at most 3 of
\* them.
C31_FallbackSortedTop3 ==
    (AnalysisFailed(analysis) /\ analysis.activities # <<>>) =>
       LET lines == SelectSeq(analysis.result, LAMBDA l : l.kind = "app")
       IN /\ Len(lines) <= TopApps
          /\ \A i \in 1..Len(lines) : \A j \in i..Len(lines) : lines[i].mins >= lines[j].mins

\* C32: the summary lines end_session returns are never empty and are the ones
\* stored with the Submission; a free-text summary is the first line and only
\* application lines follow it; when the request gives neither text nor an
\* application of a full minute, they are the single line stating the
\* session's duration.
C32_EndSummaryNeverEmpty ==
    (resp.op = "end" /\ resp.status = 200) =>
       LET lines == resp.summaryLines
           appMinutes == {a \in 1..Len(resp.activities) :
                             SumDuration(resp.activities, resp.activities[a].app) >= 60}
       IN /\ lines # <<>>
          /\ resp.submissionId # Null => submissions[resp.submissionId].summary_lines = lines
          /\ resp.summary # "none" =>
                /\ lines[1] = [kind |-> "text", text |-> resp.summary]
                /\ \A i \in 2..Len(lines) : lines[i].kind = "app"
                /\ (appMinutes # {}) => Len(lines) > 1
          /\ resp.summary = "none" =>
                /\ (appMinutes # {}) => \A i \in 1..Len(lines) : lines[i].kind = "app"
                /\ (appMinutes = {}) =>
                      lines = <<[mins |-> resp.durationMinutes, kind |-> "session"]>>

C32_Witness ==
    /\ resp.op = "end" /\ resp.status = 200
    /\ resp.summary = "notes"
    /\ Len(resp.summaryLines) = 3
    /\ resp.submissionId # Null

\* C33: the effects of end_session occur in a fixed order: the session row is
\* completed, with ended_at and duration_minutes, before the Submission is
\* inserted, and every session:ended envelope is delivered after the
\* Submission is stored: it carries the id of a stored Submission of that
\* session, the session's id and its duration, and its session is not active.
C33_EndEffectsOrdered ==
    /\ \A r \in Reqs : reqs[r].pc \in {"insert", "notify"} =>
          LET ses == work_sessions[reqs[r].sid]
          IN /\ ses.status = "completed"
             /\ ses.ended_at # Null
             /\ ses.duration_minutes = reqs[r].duration_minutes
    /\ \A e \in wire : e.type = "session:ended" =>
          LET ses == work_sessions[e.payload.sessionId]
          IN /\ ses.status = "completed"
             /\ ses.duration_minutes = e.payload.durationMinutes
             /\ e.payload.submissionId \in 1..Len(submissions)
             /\ submissions[e.payload.submissionId].session_id = e.payload.sessionId

\* C34: an approval in which the write of a matched task failed still sets the
\* other matched tasks to done, leaves the Submission approved, and answers 200
\* with id, status and updatedAt.
C34_PartialApproval ==
    [][(Approved(resp') /\ resp'.cascaded /\ resp'.failed # {}) =>
         LET sub == submissions'[resp'.submissionId]
         IN /\ resp'.status = 200
            /\ DOMAIN resp'.body = {"id", "status", "updatedAt"}
            /\ resp'.body.id = resp'.submissionId
            /\ resp'.body.status = "approved"
            /\ sub.status = "approved"
            /\ \A i \in 1..Len(task_table') :
                  task_table'[i].id \in Range(sub.matched_tasks) \ resp'.failed
                     => task_table'[i].status = "done"
    ]_vars

\* the write of t1 failed in an approval of [t1, t2]: t2 is done, t1 is not
C34_Witness ==
    /\ Approved(resp) /\ resp.cascaded
    /\ resp.failed = {"t1"}
    /\ submissions[resp.submissionId].matched_tasks = <<"t1", "t2">>
    /\ submissions[resp.submissionId].status = "approved"
    /\ \E i \in 1..Len(task_table) : task_table[i].id = "t2" /\ task_table[i].status = "done"
    /\ \E i \in 1..Len(task_table) : task_table[i].id = "t1" /\ task_table[i].status = "todo"

\* C35: analyze skips the malformed items of the model's answer and applies the
\* well-formed ones: a call never answers an error after it has written tasks,
\* and a call answered 200 has inserted one task for every newTasks item that
\* has a title when a brief is resolved.
C35_AnalyzeSkipsMalformed ==
    [][resp'.op = "analyze" =>
         /\ resp'.status = 500 => task_table' = task_table
         /\ (resp'.status = 200 /\ ~resp'.degraded /\ AnalyzeBrief(resp'.request) # "none") =>
               Len(resp'.newTaskIds) =
                  Len(SelectSeq(resp'.result.newTasks, LAMBDA n : n.hasTitle))
    ]_vars

\* C36: the status of every Task is todo, in_progress or done, whatever
\* sequence of analyze and review calls has run.
C36_TaskStatusDomain ==
    \A i \in 1..Len(task_table) : task_table[i].status \in {"todo", "in_progress", "done"}

\* C37 as stated: disconnect removes exactly the given socket from its
\* organisation's set: the socket is no longer a listener and no send goes to a
\* socket that is not registered, the other listeners of every organisation
\* stay, an organisation left without listener has no entry, and the
\* disconnect of a socket that is not registered leaves the registry as it was.
C37_UnsubscribeExact ==
    [][/\ \A e \in wire' : e.to \in Listeners(active_connections, bcast.org_id)
       /\ \A w \in FanoutSockets, org \in Orgs : Disconnect(w, org) =>
             /\ w \notin Listeners(active_connections', org)
             /\ \A o \in Orgs :
                   Listeners(active_connections', o) =
                      Listeners(active_connections, o) \ (IF o = org THEN {w} ELSE {})
             /\ Listeners(active_connections', org) = {} =>
                   org \notin DOMAIN active_connections'
             /\ w \notin Listeners(active_connections, org) =>
                   active_connections' = active_connections
    ]_vars

\* C37, amended: as above, but the disconnect of a socket that is not
\* registered leaves every organisation's listeners as they were; it removes
\* the entry of its organisation when a broadcast's clean-up had emptied it.
C37_Unsubscribe ==
    [][/\ \A e \in wire' : e.to \in Listeners(active_connections, bcast.org_id)
       /\ \A w \in FanoutSockets, org \in Orgs : Disconnect(w, org) =>
             /\ w \notin Listeners(active_connections', org)
             /\ \A o \in Orgs :
                   Listeners(active_connections', o) =
                      Listeners(active_connections, o) \ (IF o = org THEN {w} ELSE {})
             /\ Listeners(active_connections', org) = {} =>
                   org \notin DOMAIN active_connections'
    ]_vars

\* a broadcast to o1 delivered to w1, o1 has no entry any more (only disconnect
\* deletes one), and the listeners of o2 are still registered
C37_Witness ==
    /\ bcast.pc = "done" /\ bcast.org_id = "o1"
    /\ bcast.delivered = <<"w1">>
    /\ "o1" \notin DOMAIN active_connections
    /\ Listeners(active_connections, "o2") = {"w2", "w3"}

\* C38: a session is active or completed, and completed exactly when ended_at
\* and duration_minutes are set; no step changes the status, ended_at or
\* duration_minutes of a completed session; and the update of an end call
\* changes no row but the one of its session.
C38_CompletedTerminal ==
    [][/\ \A id \in 1..Len(work_sessions') :
             LET row == work_sessions'[id]
             IN /\ row.status \in {"active", "completed"}
                /\ row.status = "completed" <=>
                      (row.ended_at # Null /\ row.duration_minutes # Null)
       /\ \A id \in 1..Len(work_sessions) :
             work_sessions[id].status = "completed" =>
                /\ work_sessions'[id].status = "completed"
                /\ work_sessions'[id].ended_at = work_sessions[id].ended_at
                /\ work_sessions'[id].duration_minutes = work_sessions[id].duration_minutes
       /\ \A r \in Reqs : (reqs[r].pc = "update" /\ reqs'[r].pc = "insert") =>
             \A id \in 1..Len(work_sessions) :
                id # reqs[r].sid => work_sessions'[id] = work_sessions[id]
    ]_vars

\* a review call that set the status rejected and answered 200
Rejected(r) ==
    r.op = "review" /\ r.status = 200 /\ r.update.hasStatus /\ r.update.status = "rejected"

\* C39: a successful review with status rejected changes the reviewed
\* Submission only, its status and, with an override, its matched_tasks: every
\* task, every other submission, every session and the listener sets are as
\* before, and no tasks:updated is emitted or delivered.
C39_RejectChangesSubmissionOnly ==
    [][Rejected(resp') =>
         LET id == resp'.submissionId
         IN /\ task_table' = task_table
            /\ work_sessions' = work_sessions
            /\ active_connections' = active_connections
            /\ resp'.emitted = <<>>
            /\ wire' = {}
            /\ submissions' =
                  [submissions EXCEPT
                     ![id].status = "rejected",
                     ![id].matched_tasks =
                        IF resp'.update.hasMatched THEN resp'.update.matchedTasks ELSE @]
    ]_vars

\* a rejection, with an override, of a submission that was approved, its tasks
\* t1 and t2 done, while a listener of o1 is connected
C39_Witness ==
    /\ Rejected(resp)
    /\ resp.previous = "approved"
    /\ resp.update.hasMatched
    /\ submissions[resp.submissionId].matched_tasks = <<"t2">>
    /\ Listeners(active_connections, "o1") # {}
    /\ \A i \in 1..Len(task_table) :
          task_table[i].id \in {"t1", "t2"} => task_table[i].status = "done"

\* C40: an approval changes only tasks of the reviewed submission's brief, a
\* brief of the caller's organisation: no review call sets to done a task of a
\* brief that another organisation, or nobody's organisation, owns.
C40_ApprovalWithinBrief ==
    [][resp'.op = "review" =>
         \A i \in 1..Len(task_table) :
            task_table'[i] # task_table[i] =>
               /\ task_table[i].brief_id = submissions[resp'.submissionId].brief_id
               /\ Briefs[task_table[i].brief_id].org_id = resp'.caller.orgId
    ]_vars

====
